---- MODULE Spec2Model ----
(***************************************************************************)
(* Split virtqueue (driver side VirtQueue, device side DeviceVirtQueue)    *)
(* of src/src/queue.rs, with the HAL contract of src/src/hal.rs.           *)
(*                                                                         *)
(* The specifications share the operators translated from the code; the   *)
(* first three are:                                                        *)
(*   Spec       the driver's operations as atomic steps, against a device  *)
(*              that completes the chains in flight in any order;          *)
(*   SpecPair   the driver against the DeviceVirtQueue over one shared     *)
(*              memory, where add's stores to shared memory are single     *)
(*              steps that interleave with the device;                     *)
(*   SpecTamper two runs of the driver on the same calls and the same used *)
(*              ring, one of them with a device that overwrites the live   *)
(*              descriptor table.                                          *)
(* The others, each defined with the claims it serves, put the device's   *)
(* queue against any driver (SpecAvail, SpecUsed, SpecHelpers, SpecWedge), *)
(* follow the notifications (SpecNotify), the waiting call (SpecWait,      *)
(* SpecWaitFair), a full ring (SpecFlight), the DMA regions (SpecDma), and *)
(* the socket connection manager (SpecManager, SpecRing, SpecStream).      *)
(***************************************************************************)
EXTENDS Integers, Sequences, FiniteSets, TLC

\* ------------------------------------------------------------------ bounds
\* `SIZE` of VirtQueue<H, SIZE>: a power of two (SIZE_OK); the tests use 4.
SIZE == 4
\* width of the free-running ring indices (u16)
U16 == 65536
\* size_of::<Descriptor>()
DescBytes == 16
\* adds per behaviour (the ring indices are free-running counters)
MaxAdds == 4
\* adds per behaviour of the driver against the DeviceVirtQueue
MaxPairAdds == 2
\* adds per behaviour of the two runs
MaxTwinAdds == 2

\* DescFlags
NEXT == 1
WRITE == 2
INDIRECT == 4

Slots == 0 .. (SIZE - 1)
None == [none |-> TRUE]

\* ---------------------------------------------------------------- helpers
Contains(flags, bit) == (flags \div bit) % 2 = 1
Remove(flags, bit) == IF Contains(flags, bit) THEN flags - bit ELSE flags
\* x & (SIZE - 1), SIZE a power of two
Mask(x) == x % SIZE
wrapping_add(x, y) == (x + y) % U16

Range(s) == {s[i] : i \in DOMAIN s}
Zeros(n) == [i \in 1 .. n |-> 0]

RECURSIVE Concat(_)
Concat(ss) == IF ss = <<>> THEN <<>> ELSE Head(ss) \o Concat(Tail(ss))

\* ------------------------------------------------------------- descriptors
Descriptor(addr, len, flags, next) ==
    [addr |-> addr, len |-> len, flags |-> flags, next |-> next]
ZeroDesc == Descriptor(0, 0, 0, 0)

\* Descriptor::next
desc_next(d) == IF Contains(d.flags, NEXT) THEN d.next ELSE -1

\* Descriptor::unset_buf
unset_buf(d) == [d EXCEPT !.addr = 0, !.len = 0]

\* -------------------------------------------------------------------- HAL
\* A buffer of the caller: its address in the driver's memory, its length
\* in bytes and its contents.
Buffer(vaddr, len, data) == [vaddr |-> vaddr, len |-> len, data |-> data]

\* The HAL keeps one region per share that has not been unshared. `bad`
\* records a call that breaks the HAL's contract: a share of a buffer that is
\* still shared, an unshare of an address that no share returned, or an
\* unshare with another buffer or direction than the share.
HalInit == [regions |-> {}, bad |-> FALSE]

\* The device's address of the region the HAL gives a buffer: a fixed
\* translation of the buffer's address, never 0.
DmaOffset == 1000
PhysAddr(vaddr) == vaddr + DmaOffset

RegionAt(hal, paddr) == {r \in hal.regions : r.paddr = paddr}

\* Hal::share: the region is a copy of the buffer when the driver is the
\* writer and zeroed memory otherwise; returns the device's address of it.
share(hal, buffer, direction) ==
    LET p == PhysAddr(buffer.vaddr)
        data == IF direction = "DriverToDevice" THEN buffer.data
                ELSE Zeros(buffer.len)
        r == [paddr |-> p, vaddr |-> buffer.vaddr, direction |-> direction,
              len |-> buffer.len, data |-> data]
    IN  [paddr |-> p,
         hal |-> [regions |-> (hal.regions \ RegionAt(hal, p)) \cup {r},
                  bad |-> hal.bad \/ RegionAt(hal, p) # {}]]

\* Hal::unshare: releases the region and copies it back to the buffer when
\* the device is the writer.
unshare(hal, paddr, buffer, direction) ==
    IF RegionAt(hal, paddr) = {}
    THEN [hal |-> [hal EXCEPT !.bad = TRUE], buffer |-> buffer]
    ELSE LET r == CHOOSE x \in RegionAt(hal, paddr) : TRUE
             ok == r.vaddr = buffer.vaddr /\ r.direction = direction
         IN  [hal |-> [regions |-> hal.regions \ {r}, bad |-> hal.bad \/ ~ok],
              buffer |-> IF direction = "DeviceToDriver"
                         THEN [buffer EXCEPT !.data = r.data]
                         ELSE buffer]

\* Addresses in the driver's memory: of the input buffers (kind 1) and the
\* output buffers (kind 2) of the chain whose head is `slot`, and of the
\* indirect list (kind 3) that slot owns.
Vaddr(kind, slot, pos) == (kind * SIZE + slot) * (SIZE + 2) + pos

\* Descriptor::set_buf
set_buf(d, hal, buffer, direction, extra_flags) ==
    LET s == share(hal, buffer, direction)
        w == IF direction = "DeviceToDriver" THEN WRITE ELSE 0
    IN  [desc |-> [d EXCEPT !.addr = s.paddr, !.len = buffer.len,
                            !.flags = extra_flags + w],
         hal |-> s.hal]

\* InputOutputIter with the outputs before the inputs.
InputOutputIter_outputs_first(inputs, outputs) ==
    [i \in 1 .. (Len(inputs) + Len(outputs)) |->
        IF i <= Len(outputs)
        THEN [buffer |-> outputs[i], direction |-> "DeviceToDriver"]
        ELSE [buffer |-> inputs[i - Len(outputs)], direction |-> "DriverToDevice"]]

\* InputOutputIter: the inputs in order, then the outputs in order.
InputOutputIter(inputs, outputs) ==
    [i \in 1 .. (Len(inputs) + Len(outputs)) |->
        IF i <= Len(inputs)
        THEN [buffer |-> inputs[i], direction |-> "DriverToDevice"]
        ELSE [buffer |-> outputs[i - Len(inputs)], direction |-> "DeviceToDriver"]]

\* ---------------------------------------------------------- shared memory
\* The descriptor table, the available ring and the used ring.
ShmInit ==
    [desc  |-> [i \in Slots |-> IF i < SIZE - 1 THEN Descriptor(0, 0, 0, i + 1)
                                ELSE ZeroDesc],
     avail |-> [flags |-> 0, idx |-> 0, ring |-> [i \in Slots |-> 0],
                used_event |-> 0],
     used  |-> [flags |-> 0, idx |-> 0,
                ring |-> [i \in Slots |-> [id |-> 0, len |-> 0]],
                avail_event |-> 0]]

\* One store of the driver to shared memory.
Store(t, i, d, v) == [t |-> t, i |-> i, d |-> d, v |-> v]

ApplyStore(shm, w) ==
    CASE w.t = "desc"       -> [shm EXCEPT !.desc[w.i] = w.d]
      [] w.t = "ring"       -> [shm EXCEPT !.avail.ring[w.i] = w.v]
      [] w.t = "idx"        -> [shm EXCEPT !.avail.idx = w.v]
      [] w.t = "flags"      -> [shm EXCEPT !.avail.flags = w.v]
      [] w.t = "used_event" -> [shm EXCEPT !.avail.used_event = w.v]
      [] w.t = "used_id"    -> [shm EXCEPT !.used.ring[w.i].id = w.v]
      [] w.t = "used_len"   -> [shm EXCEPT !.used.ring[w.i].len = w.v]
      [] w.t = "used_idx"   -> [shm EXCEPT !.used.idx = w.v]

RECURSIVE ApplyStores(_, _)
ApplyStores(shm, ws) ==
    IF ws = <<>> THEN shm ELSE ApplyStores(ApplyStore(shm, Head(ws)), Tail(ws))

\* ------------------------------------------------------ VirtQueue (driver)
\* VirtQueue::new: the private fields of the queue.
new(indirect, event_idx) ==
    [num_used |-> 0,
     free_head |-> 0,
     desc_shadow |-> [i \in Slots |-> IF i < SIZE - 1
                                      THEN Descriptor(0, 0, 0, i + 1)
                                      ELSE ZeroDesc],
     avail_idx |-> 0,
     last_used_idx |-> 0,
     event_idx |-> event_idx,
     indirect |-> indirect,
     indirect_lists |-> [i \in Slots |-> None]]

\* The state of an operation in progress: the queue's fields, the HAL, the
\* stores to shared memory in program order, and the last descriptor used.
Prog(vq, hal, stores, last) ==
    [vq |-> vq, hal |-> hal, stores |-> stores, last |-> last]

\* VirtQueue::write_desc: copies desc_shadow[index] to desc[index].
write_desc(st, index) ==
    [st EXCEPT !.stores = Append(@, Store("desc", index, st.vq.desc_shadow[index], 0))]

\* VirtQueue::add_direct, one turn of the loop over the buffers.
add_direct_step(st, item) ==
    LET fh == st.vq.free_head
        sb == set_buf(st.vq.desc_shadow[fh], st.hal, item.buffer, item.direction, NEXT)
        vq1 == [st.vq EXCEPT !.desc_shadow[fh] = sb.desc, !.free_head = sb.desc.next]
    IN  write_desc(Prog(vq1, sb.hal, st.stores, fh), fh)

RECURSIVE add_direct_loop(_, _, _)
add_direct_loop(st, iter, i) ==
    IF i > Len(iter) THEN st
    ELSE add_direct_loop(add_direct_step(st, iter[i]), iter, i + 1)

\* VirtQueue::add_direct, after the loop: the last descriptor loses NEXT.
add_direct_finish(st, n) ==
    LET vq1 == [st.vq EXCEPT !.desc_shadow[st.last].flags = Remove(@, NEXT)]
        st1 == write_desc([st EXCEPT !.vq = vq1], st.last)
    IN  [st1 EXCEPT !.vq.num_used = @ + n]

\* VirtQueue::add_direct
add_direct(st, inputs, outputs) ==
    LET iter == InputOutputIter(inputs, outputs)
        st0 == [st EXCEPT !.last = st.vq.free_head]
    IN  add_direct_finish(add_direct_loop(st0, iter, 1), Len(iter))

\* VirtQueue::add_indirect, the loop that fills the indirect list. `lst` is
\* the list so far.
RECURSIVE add_indirect_loop(_, _, _, _)
add_indirect_loop(hal, lst, iter, i) ==
    IF i > Len(iter) THEN [hal |-> hal, list |-> lst]
    ELSE LET sb == set_buf(ZeroDesc, hal, iter[i].buffer, iter[i].direction, NEXT)
         IN  add_indirect_loop(sb.hal, Append(lst, [sb.desc EXCEPT !.next = i]),
                               iter, i + 1)

\* The driver's address of the indirect list that slot `head` owns.
ListVaddr(head) == Vaddr(3, head, 0)

\* VirtQueue::add_indirect
add_indirect(st, inputs, outputs) ==
    LET iter == InputOutputIter(inputs, outputs)
        n    == Len(iter)
        head == st.vq.free_head
        fill == add_indirect_loop(st.hal, <<>>, iter, 1)
        indirect_list == [fill.list EXCEPT ![n].flags = Remove(@, NEXT)]
        sb == set_buf(st.vq.desc_shadow[head], fill.hal,
                      Buffer(ListVaddr(head), n * DescBytes, indirect_list),
                      "DriverToDevice", INDIRECT)
        vq1 == [st.vq EXCEPT !.indirect_lists[head] = indirect_list,
                             !.free_head = st.vq.desc_shadow[head].next,
                             !.desc_shadow[head] = sb.desc]
        st1 == write_desc(Prog(vq1, sb.hal, st.stores, head), head)
    IN  [st1 EXCEPT !.vq.num_used = @ + 1]

\* add_queue_full that also refuses the chain that fills the table exactly.
add_queue_full_early(vq, descriptors_needed) ==
    \/ vq.num_used + 1 > SIZE
    \/ descriptors_needed > SIZE
    \/ (~vq.indirect /\ vq.num_used + descriptors_needed >= SIZE)

\* add_queue_full that looks at the length of the chain only.
add_queue_full_lax(vq, descriptors_needed) == descriptors_needed > SIZE

\* VirtQueue::add, the test for a full queue.
add_queue_full(vq, descriptors_needed) ==
    \/ vq.num_used + 1 > SIZE
    \/ descriptors_needed > SIZE
    \/ (~vq.indirect /\ vq.num_used + descriptors_needed > SIZE)

\* VirtQueue::add_indirect asserts that the head owns no indirect list yet.
add_asserts(vq, descriptors_needed) ==
    (vq.indirect /\ descriptors_needed > 1) => vq.indirect_lists[vq.free_head] = None

\* VirtQueue::add, the choice between an indirect and a direct chain.
add_chain(st, inputs, outputs) ==
    IF st.vq.indirect /\ Len(inputs) + Len(outputs) > 1
    THEN add_indirect(st, inputs, outputs)
    ELSE add_direct(st, inputs, outputs)

\* add_publish with the index stored before the ring slot.
add_publish_index_first(st, head) ==
    LET avail_slot == Mask(st.vq.avail_idx)
        idx == wrapping_add(st.vq.avail_idx, 1)
    IN  [st EXCEPT !.vq.avail_idx = idx,
                   !.stores = @ \o <<Store("idx", 0, ZeroDesc, idx),
                                     Store("ring", avail_slot, ZeroDesc, head)>>]

\* VirtQueue::add, after the chain is written: the ring slot, the fence and
\* then the store of the incremented index.
add_publish(st, head) ==
    LET avail_slot == Mask(st.vq.avail_idx)
        idx == wrapping_add(st.vq.avail_idx, 1)
    IN  [st EXCEPT !.vq.avail_idx = idx,
                   !.stores = @ \o <<Store("ring", avail_slot, ZeroDesc, head),
                                     Store("idx", 0, ZeroDesc, idx)>>]

\* VirtQueue::add. The result holds the returned value, the queue's fields
\* and the HAL after the call and the stores made to shared memory.
Result(ret, val, st) ==
    [ret |-> ret, val |-> val, vq |-> st.vq, hal |-> st.hal, stores |-> st.stores]

\* add that writes the chain before it tests for a full queue.
add_late_test(vq, hal, inputs, outputs) ==
    LET st == Prog(vq, hal, <<>>, 0)
    IN  IF inputs = <<>> /\ outputs = <<>> THEN Result("InvalidParam", 0, st)
        ELSE IF add_queue_full(vq, Len(inputs) + Len(outputs))
        THEN Result("QueueFull", 0, add_chain(st, inputs, outputs))
        ELSE Result("Ok", vq.free_head,
                    add_publish(add_chain(st, inputs, outputs), vq.free_head))

add(vq, hal, inputs, outputs) ==
    LET st == Prog(vq, hal, <<>>, 0)
    IN  IF inputs = <<>> /\ outputs = <<>> THEN Result("InvalidParam", 0, st)
        ELSE IF add_queue_full(vq, Len(inputs) + Len(outputs))
        THEN Result("QueueFull", 0, st)
        ELSE IF ~add_asserts(vq, Len(inputs) + Len(outputs))
        THEN Result("panic", 0, st)
        ELSE Result("Ok", vq.free_head,
                    add_publish(add_chain(st, inputs, outputs), vq.free_head))

\* VirtQueue::can_pop
can_pop(vq, shm) == vq.last_used_idx # shm.used.idx

\* VirtQueue::peek_used (-1 for None)
peek_used(vq, shm) ==
    IF can_pop(vq, shm) THEN shm.used.ring[Mask(vq.last_used_idx)].id % U16 ELSE -1

\* available_desc that counts the free direct descriptors in every mode.
available_desc_direct(vq) == SIZE - vq.num_used

\* VirtQueue::available_desc
available_desc(vq) ==
    IF vq.indirect THEN (IF vq.num_used = SIZE THEN 0 ELSE SIZE)
    ELSE SIZE - vq.num_used

\* VirtQueue::should_notify
should_notify(vq, shm) ==
    IF vq.event_idx THEN vq.avail_idx >= wrapping_add(shm.used.avail_event, 1)
    ELSE shm.used.flags % 2 = 0

\* set_dev_notify that stores the flags whether or not event_idx was
\* negotiated.
set_dev_notify_always(vq, enable) ==
    <<Store("flags", 0, ZeroDesc, IF enable THEN 0 ELSE 1)>>

\* VirtQueue::set_dev_notify
set_dev_notify(vq, enable) ==
    LET avail_ring_flags == IF enable THEN 0 ELSE 1
    IN  IF ~vq.event_idx THEN <<Store("flags", 0, ZeroDesc, avail_ring_flags)>>
        ELSE <<>>

\* The state of recycle_descriptors in progress: `next` is the index of the
\* next descriptor of the chain (-1 for None), `bufs` the buffers handed
\* back so far, `panic` whether an assertion or unwrap has failed.
Recycling(st, next, bufs, panic) ==
    [st |-> st, next |-> next, bufs |-> bufs, panic |-> panic]

\* recycle_direct_step that takes the address to unshare from the descriptor
\* after unset_buf has cleared it.
recycle_direct_step_cleared(rc, item, original_free_head) ==
    IF rc.panic \/ rc.next = -1 THEN [rc EXCEPT !.panic = TRUE]
    ELSE LET desc_index == rc.next
             d == rc.st.vq.desc_shadow[desc_index]
             next == desc_next(d)
             d1 == unset_buf(d)
             d2 == IF next = -1 THEN [d1 EXCEPT !.next = original_free_head] ELSE d1
             vq1 == [rc.st.vq EXCEPT !.desc_shadow[desc_index] = d2,
                                     !.num_used = @ - 1]
             st1 == write_desc([rc.st EXCEPT !.vq = vq1], desc_index)
             u == unshare(st1.hal, d2.addr, item.buffer, item.direction)
         IN  Recycling([st1 EXCEPT !.hal = u.hal], next,
                       Append(rc.bufs, u.buffer), FALSE)

\* recycle_direct_step without the link of the chain's last descriptor to the
\* old head of the free list.
recycle_direct_step_unlinked(rc, item, original_free_head) ==
    IF rc.panic \/ rc.next = -1 THEN [rc EXCEPT !.panic = TRUE]
    ELSE LET desc_index == rc.next
             d == rc.st.vq.desc_shadow[desc_index]
             next == desc_next(d)
             vq1 == [rc.st.vq EXCEPT !.desc_shadow[desc_index] = unset_buf(d),
                                     !.num_used = @ - 1]
             st1 == write_desc([rc.st EXCEPT !.vq = vq1], desc_index)
             u == unshare(st1.hal, d.addr, item.buffer, item.direction)
         IN  Recycling([st1 EXCEPT !.hal = u.hal], next,
                       Append(rc.bufs, u.buffer), FALSE)

\* VirtQueue::recycle_descriptors, one turn of the loop over a direct chain.
recycle_direct_step(rc, item, original_free_head) ==
    IF rc.panic \/ rc.next = -1 THEN [rc EXCEPT !.panic = TRUE]
    ELSE LET desc_index == rc.next
             d == rc.st.vq.desc_shadow[desc_index]
             paddr == d.addr
             next == desc_next(d)
             d1 == unset_buf(d)
             d2 == IF next = -1 THEN [d1 EXCEPT !.next = original_free_head] ELSE d1
             vq1 == [rc.st.vq EXCEPT !.desc_shadow[desc_index] = d2,
                                     !.num_used = @ - 1]
             st1 == write_desc([rc.st EXCEPT !.vq = vq1], desc_index)
             u == unshare(st1.hal, paddr, item.buffer, item.direction)
         IN  Recycling([st1 EXCEPT !.hal = u.hal], next,
                       Append(rc.bufs, u.buffer), FALSE)

RECURSIVE recycle_direct_loop(_, _, _, _)
recycle_direct_loop(rc, iter, i, original_free_head) ==
    IF i > Len(iter) THEN rc
    ELSE recycle_direct_loop(recycle_direct_step(rc, iter[i], original_free_head),
                             iter, i + 1, original_free_head)

\* VirtQueue::recycle_descriptors, the loop that unshares the buffers of an
\* indirect list.
RECURSIVE recycle_indirect_loop(_, _, _, _)
recycle_indirect_loop(rc, indirect_list, iter, i) ==
    IF i > Len(iter) THEN rc
    ELSE LET u == unshare(rc.st.hal, indirect_list[i].addr, iter[i].buffer,
                          iter[i].direction)
         IN  recycle_indirect_loop(
                 [rc EXCEPT !.st.hal = u.hal, !.bufs = Append(@, u.buffer)],
                 indirect_list, iter, i + 1)

\* recycle_indirect that leaves the list with its head.
recycle_indirect_keep(st, head, iter, original_free_head) ==
    LET indirect_list == st.vq.indirect_lists[head]
        head_desc == st.vq.desc_shadow[head]
        paddr == head_desc.addr
        vq1 == [st.vq EXCEPT
                   !.desc_shadow[head] =
                       [unset_buf(head_desc) EXCEPT !.next = original_free_head],
                   !.num_used = @ - 1]
    IN  IF indirect_list = None THEN Recycling(st, -1, <<>>, TRUE)
        ELSE LET u == unshare(st.hal, paddr,
                              Buffer(ListVaddr(head), Len(indirect_list) * DescBytes,
                                     indirect_list),
                              "DriverToDevice")
                 rc == Recycling([st EXCEPT !.vq = vq1, !.hal = u.hal], -1, <<>>,
                                 Len(indirect_list) # Len(iter))
             IN  IF rc.panic THEN rc
                 ELSE recycle_indirect_loop(rc, indirect_list, iter, 1)

\* VirtQueue::recycle_descriptors, the branch for an indirect chain.
recycle_indirect(st, head, iter, original_free_head) ==
    LET indirect_list == st.vq.indirect_lists[head]
        head_desc == st.vq.desc_shadow[head]
        paddr == head_desc.addr
        vq1 == [st.vq EXCEPT
                   !.indirect_lists[head] = None,
                   !.desc_shadow[head] =
                       [unset_buf(head_desc) EXCEPT !.next = original_free_head],
                   !.num_used = @ - 1]
    IN  IF indirect_list = None THEN Recycling(st, -1, <<>>, TRUE)
        ELSE LET u == unshare(st.hal, paddr,
                              Buffer(ListVaddr(head), Len(indirect_list) * DescBytes,
                                     indirect_list),
                              "DriverToDevice")
                 rc == Recycling([st EXCEPT !.vq = vq1, !.hal = u.hal], -1, <<>>,
                                 Len(indirect_list) # Len(iter))
             IN  IF rc.panic THEN rc
                 ELSE recycle_indirect_loop(rc, indirect_list, iter, 1)

\* VirtQueue::recycle_descriptors
recycle_descriptors(st, head, inputs, outputs) ==
    LET original_free_head == st.vq.free_head
        st0 == [st EXCEPT !.vq.free_head = head]
        iter == InputOutputIter(inputs, outputs)
    IN  IF Contains(st0.vq.desc_shadow[head].flags, INDIRECT)
        THEN recycle_indirect(st0, head, iter, original_free_head)
        ELSE LET rc == recycle_direct_loop(Recycling(st0, head, <<>>, FALSE),
                                           iter, 1, original_free_head)
             IN  [rc EXCEPT !.panic = @ \/ rc.next # -1]

\* pop_used that stores used_event whether or not event_idx was negotiated.
pop_used_finish_always(st) ==
    LET idx == wrapping_add(st.vq.last_used_idx, 1)
    IN  [st EXCEPT !.vq.last_used_idx = idx,
                   !.stores = Append(@, Store("used_event", 0, ZeroDesc, idx))]

\* VirtQueue::pop_used, after the chain is recycled.
pop_used_finish(st) ==
    LET idx == wrapping_add(st.vq.last_used_idx, 1)
    IN  [st EXCEPT !.vq.last_used_idx = idx,
                   !.stores = IF st.vq.event_idx
                              THEN Append(@, Store("used_event", 0, ZeroDesc, idx))
                              ELSE @]

\* VirtQueue::pop_used. `bufs` of the result are the caller's buffers after
\* the call, inputs first.
PopResult(ret, val, st, bufs) ==
    [ret |-> ret, val |-> val, vq |-> st.vq, hal |-> st.hal,
     stores |-> st.stores, bufs |-> bufs]

\* pop_used that consumes the used element before it compares the token.
pop_used_consuming(vq, shm, hal, token, inputs, outputs) ==
    LET st == Prog(vq, hal, <<>>, 0)
        elem == shm.used.ring[Mask(vq.last_used_idx)]
        index == elem.id % U16
    IN  IF ~can_pop(vq, shm) THEN PopResult("NotReady", 0, st, <<>>)
        ELSE IF index # token
        THEN PopResult("WrongToken", 0, pop_used_finish(st), <<>>)
        ELSE LET rc == recycle_descriptors(st, index, inputs, outputs)
             IN  IF rc.panic THEN PopResult("panic", 0, rc.st, rc.bufs)
                 ELSE PopResult("Ok", elem.len, pop_used_finish(rc.st), rc.bufs)

\* pop_used that reads the chain back from the live descriptor table.
pop_used_live(vq, shm, hal, token, inputs, outputs) ==
    LET st == Prog([vq EXCEPT !.desc_shadow = shm.desc], hal, <<>>, 0)
        elem == shm.used.ring[Mask(vq.last_used_idx)]
        index == elem.id % U16
    IN  IF ~can_pop(vq, shm) THEN PopResult("NotReady", 0, Prog(vq, hal, <<>>, 0), <<>>)
        ELSE IF index # token
        THEN PopResult("WrongToken", 0, Prog(vq, hal, <<>>, 0), <<>>)
        ELSE LET rc == recycle_descriptors(st, index, inputs, outputs)
             IN  IF rc.panic THEN PopResult("panic", 0, rc.st, rc.bufs)
                 ELSE PopResult("Ok", elem.len, pop_used_finish(rc.st), rc.bufs)

pop_used(vq, shm, hal, token, inputs, outputs) ==
    LET st == Prog(vq, hal, <<>>, 0)
        elem == shm.used.ring[Mask(vq.last_used_idx)]
        index == elem.id % U16
    IN  IF ~can_pop(vq, shm) THEN PopResult("NotReady", 0, st, <<>>)
        ELSE IF index # token THEN PopResult("WrongToken", 0, st, <<>>)
        ELSE LET rc == recycle_descriptors(st, index, inputs, outputs)
             IN  IF rc.panic THEN PopResult("panic", 0, rc.st, rc.bufs)
                 ELSE PopResult("Ok", elem.len, pop_used_finish(rc.st), rc.bufs)

\* ---------------------------------------------- DeviceVirtQueue (device)
\* DeviceVirtQueue::new: the private fields of the device's queue. The
\* mappings it caches per descriptor (desc_mapped) give it the memory at the
\* descriptor's address, which is read here where it is used.
dev_new == [avail_idx |-> 0, last_used_idx |-> 0]

\* DeviceVirtQueue::can_pop
dev_can_pop(q, m) == q.avail_idx # m.avail.idx

\* DeviceVirtQueue::peek_avail (-1 for None)
peek_avail(q, m) ==
    IF dev_can_pop(q, m) THEN m.avail.ring[Mask(q.avail_idx)] ELSE -1

\* DeviceVirtQueue::should_notify
dev_should_notify(m) == m.avail.flags % 2 = 0

\* The memory a mapped descriptor gives the device: the first `len` bytes of
\* the region at the descriptor's address.
DevBuffer(paddr, len) == [paddr |-> paddr, len |-> len]
DevRead(l, b) ==
    IF RegionAt(l, b.paddr) = {} THEN <<>>
    ELSE LET r == CHOOSE x \in RegionAt(l, b.paddr) : TRUE
         IN  [i \in 1 .. b.len |-> IF i <= Len(r.data) THEN r.data[i] ELSE 0]
DevWrite(l, b, bytes) ==
    [l EXCEPT !.regions =
        {IF r.paddr = b.paddr
         THEN [r EXCEPT !.data = [i \in 1 .. Len(r.data) |->
                                     IF i <= Len(bytes) THEN bytes[i] ELSE r.data[i]]]
         ELSE r : r \in l.regions}]

\* The state of pop_avail's loop: the buffers collected, the next token (-1
\* for None) and the error that ended it ("" for none).
Popping(read_buffers, write_buffers, next_token, err) ==
    [read_buffers |-> read_buffers, write_buffers |-> write_buffers,
     next_token |-> next_token, err |-> err]

\* pop_avail that takes read descriptors after write descriptors.
pop_avail_step_unordered(m, pp) ==
    LET token == pp.next_token
    IN  IF token \notin Slots THEN [pp EXCEPT !.err = "WrongToken"]
        ELSE LET desc == m.desc[token]
                 buffer == DevBuffer(desc.addr, desc.len)
                 next_token == IF Contains(desc.flags, NEXT) THEN desc.next ELSE -1
             IN  IF Contains(desc.flags, INDIRECT) THEN [pp EXCEPT !.err = "panic"]
                 ELSE IF Contains(desc.flags, WRITE)
                 THEN [pp EXCEPT !.write_buffers = Append(@, buffer),
                                 !.next_token = next_token]
                 ELSE [pp EXCEPT !.read_buffers = Append(@, buffer),
                                 !.next_token = next_token]

\* DeviceVirtQueue::pop_avail, one turn of the loop over the chain.
pop_avail_step(m, pp) ==
    LET token == pp.next_token
    IN  IF token \notin Slots THEN [pp EXCEPT !.err = "WrongToken"]
        ELSE LET desc == m.desc[token]
                 buffer == DevBuffer(desc.addr, desc.len)
                 next_token == IF Contains(desc.flags, NEXT) THEN desc.next ELSE -1
             IN  IF Contains(desc.flags, INDIRECT) THEN [pp EXCEPT !.err = "panic"]
                 ELSE IF Contains(desc.flags, WRITE)
                 THEN [pp EXCEPT !.write_buffers = Append(@, buffer),
                                 !.next_token = next_token]
                 ELSE IF pp.write_buffers # <<>>
                 THEN [pp EXCEPT !.err = "InvalidDescriptor"]
                 ELSE [pp EXCEPT !.read_buffers = Append(@, buffer),
                                 !.next_token = next_token]

\* The loop ends with the chain or with an error; a chain that leads back
\* into itself keeps it turning for ever ("hang"): twice round a table of
\* SIZE descriptors without an error is a loop that no later turn ends.
RECURSIVE pop_avail_loop(_, _, _)
pop_avail_loop(m, pp, turns) ==
    IF pp.err # "" \/ pp.next_token = -1 THEN pp
    ELSE IF turns > 2 * SIZE THEN [pp EXCEPT !.err = "hang"]
    ELSE pop_avail_loop(m, pop_avail_step(m, pp), turns + 1)

\* DeviceVirtQueue::pop_avail
Popped(ret, q, head, pp) ==
    [ret |-> ret, dq |-> q, head |-> head,
     read_buffers |-> pp.read_buffers, write_buffers |-> pp.write_buffers]
pop_avail(q, m) ==
    LET head == peek_avail(q, m)
        pp == pop_avail_loop(m, Popping(<<>>, <<>>, head, ""), 1)
    IN  IF head = -1 THEN Popped("None", q, head, Popping(<<>>, <<>>, -1, ""))
        ELSE IF pp.err # "" THEN Popped(pp.err, q, head, pp)
        ELSE Popped("Ok", [q EXCEPT !.avail_idx = wrapping_add(@, 1)], head, pp)

\* add_used that stores the index before the used element.
add_used_stores_index_first(q, head, head_len) ==
    LET last_used_slot == Mask(q.last_used_idx)
    IN  <<Store("used_idx", 0, ZeroDesc, wrapping_add(q.last_used_idx, 1)),
          Store("used_id", last_used_slot, ZeroDesc, head),
          Store("used_len", last_used_slot, ZeroDesc, head_len)>>

\* DeviceVirtQueue::add_used, the device's stores in program order: the used
\* element, the fence, then the incremented index.
add_used_stores(q, head, head_len) ==
    LET last_used_slot == Mask(q.last_used_idx)
    IN  <<Store("used_id", last_used_slot, ZeroDesc, head),
          Store("used_len", last_used_slot, ZeroDesc, head_len),
          Store("used_idx", 0, ZeroDesc, wrapping_add(q.last_used_idx, 1))>>

\* DeviceVirtQueue::add_used
add_used(q, m, head, head_len) ==
    [dq |-> [q EXCEPT !.last_used_idx = wrapping_add(@, 1)],
     shm |-> ApplyStores(m, add_used_stores(q, head, head_len))]

\* What a device helper hands back: its result, the bytes it gave its
\* handler (or copied), how many times it called the handler, and the queue,
\* shared memory and shared regions after it.
DevResult(ret, val, head, q, m, l, notify, calls) ==
    [ret |-> ret, val |-> val, head |-> head, dq |-> q, shm |-> m, hal |-> l,
     notify |-> notify, calls |-> calls]

RECURSIVE DevReadAll(_, _)
DevReadAll(l, bufs) ==
    IF bufs = <<>> THEN <<>> ELSE DevRead(l, Head(bufs)) \o DevReadAll(l, Tail(bufs))

\* What the handler passed to poll may return.
HandlerResults == {"Ok", "Err"}

\* poll that hands the handler the first read buffer only.
poll_first_buffer(q, m, l, result) ==
    LET popped == pop_avail(q, m)
    IN  IF popped.ret = "None" THEN DevResult("None", <<>>, -1, q, m, l, FALSE, 0)
        ELSE IF popped.ret # "Ok"
        THEN DevResult(popped.ret, <<>>, popped.head, popped.dq, m, l, FALSE, 0)
        ELSE IF popped.write_buffers # <<>>
        THEN DevResult("Unsupported", <<>>, popped.head, popped.dq, m, l, FALSE, 0)
        ELSE LET tmp == DevRead(l, popped.read_buffers[1])
                 u == add_used(popped.dq, m, popped.head, 0)
             IN  DevResult(result, tmp, popped.head, u.dq, u.shm, l,
                           dev_should_notify(u.shm), 1)

\* poll that leaves the chain unused when the handler fails.
poll_keep_on_error(q, m, l, result) ==
    LET popped == pop_avail(q, m)
    IN  IF popped.ret = "None" THEN DevResult("None", <<>>, -1, q, m, l, FALSE, 0)
        ELSE IF popped.ret # "Ok"
        THEN DevResult(popped.ret, <<>>, popped.head, popped.dq, m, l, FALSE, 0)
        ELSE IF popped.write_buffers # <<>>
        THEN DevResult("Unsupported", <<>>, popped.head, popped.dq, m, l, FALSE, 0)
        ELSE LET tmp == DevReadAll(l, popped.read_buffers)
                 u == add_used(popped.dq, m, popped.head, 0)
             IN  IF result = "Err"
                 THEN DevResult(result, tmp, popped.head, popped.dq, m, l, FALSE, 1)
                 ELSE DevResult(result, tmp, popped.head, u.dq, u.shm, l,
                                dev_should_notify(u.shm), 1)

\* DeviceVirtQueue::poll, with a handler that returns `result`.
poll(q, m, l, result) ==
    LET popped == pop_avail(q, m)
    IN  IF popped.ret = "None" THEN DevResult("None", <<>>, -1, q, m, l, FALSE, 0)
        ELSE IF popped.ret # "Ok"
        THEN DevResult(popped.ret, <<>>, popped.head, popped.dq, m, l, FALSE, 0)
        ELSE IF popped.write_buffers # <<>>
        THEN DevResult("Unsupported", <<>>, popped.head, popped.dq, m, l, FALSE, 0)
        ELSE LET tmp == DevReadAll(l, popped.read_buffers)
                 u == add_used(popped.dq, m, popped.head, 0)
             IN  DevResult(result, tmp, popped.head, u.dq, u.shm, l,
                           dev_should_notify(u.shm), 1)

\* wait_pop_add_notify that writes into the first write buffer of a mixed
\* chain before it gives up.
wait_pop_add_notify_eager(q, m, l, in_bufs) ==
    LET popped == pop_avail(q, m)
        inputs == Concat(in_bufs)
    IN  IF popped.ret # "Ok"
        THEN DevResult(popped.ret, <<>>, popped.head, popped.dq, m, l, FALSE, 0)
        ELSE IF popped.write_buffers = <<>>
        THEN DevResult("NotReady", <<>>, popped.head, popped.dq, m, l, FALSE, 0)
        ELSE IF Len(inputs) > popped.write_buffers[1].len
        THEN DevResult("panic", <<>>, popped.head, popped.dq, m, l, FALSE, 0)
        ELSE LET l1 == DevWrite(l, popped.write_buffers[1], inputs)
                 u == add_used(popped.dq, m, popped.head, Len(inputs))
             IN  IF popped.read_buffers # <<>>
                 THEN DevResult("Unsupported", <<>>, popped.head, popped.dq, m, l1,
                                FALSE, 0)
                 ELSE DevResult("Ok", inputs, popped.head, u.dq, u.shm, l1,
                                dev_should_notify(u.shm), 0)

\* DeviceVirtQueue::wait_pop_add_notify, once can_pop holds: the caller's
\* buffers are copied one after the other into the first write buffer.
wait_pop_add_notify(q, m, l, in_bufs) ==
    LET popped == pop_avail(q, m)
        inputs == Concat(in_bufs)
    IN  IF popped.ret # "Ok"
        THEN DevResult(popped.ret, <<>>, popped.head, popped.dq, m, l, FALSE, 0)
        ELSE IF popped.write_buffers = <<>>
        THEN DevResult("NotReady", <<>>, popped.head, popped.dq, m, l, FALSE, 0)
        ELSE IF popped.read_buffers # <<>>
        THEN DevResult("Unsupported", <<>>, popped.head, popped.dq, m, l, FALSE, 0)
        ELSE IF Len(inputs) > popped.write_buffers[1].len
        THEN DevResult("panic", <<>>, popped.head, popped.dq, m, l, FALSE, 0)
        ELSE LET l1 == DevWrite(l, popped.write_buffers[1], inputs)
                 u == add_used(popped.dq, m, popped.head, Len(inputs))
             IN  DevResult("Ok", inputs, popped.head, u.dq, u.shm, l1,
                           dev_should_notify(u.shm), 0)

\* ------------------------------------------------------------------ state
VARIABLES
    vq,       \* the VirtQueue's private fields
    shm,      \* descriptor table, available ring and used ring
    hal,      \* the regions shared through the HAL
    chains,   \* per head slot: the chain in flight (the caller's buffers)
    last,     \* the last operation and what it returned
    adds,     \* successful adds so far
    pend,     \* SpecPair: the stores of the driver's call that are still to come
    dq,       \* SpecPair: the DeviceVirtQueue's private fields
    got,      \* SpecPair: the chain last popped and the caller's buffers after it
    twin,     \* SpecTamper: the second run (queue, shared memory, HAL, result)
    mgr       \* SpecManager: the VsockConnectionManager

vars == <<vq, shm, hal, chains, last, adds, pend, dq, got, twin, mgr>>

\* What the caller remembers of a chain until it pops it: its buffers, the
\* direct descriptors add used for it, and whether the device has completed it.
Chain(inputs, outputs, descs, used) ==
    [inputs |-> inputs, outputs |-> outputs, descs |-> descs, used |-> used,
     seen |-> <<>>, wrote |-> <<>>]

Last(op, ret, val) == [op |-> op, ret |-> ret, val |-> val]

\* The caller's buffers. A buffer's address names the chain (by the slot of
\* its head) and its place in the chain, so no two live buffers share one.
BufA == <<1>>
BufB == <<2, 3>>
\* The chains the caller adds: the contents of the input buffers and the
\* lengths of the output buffers, from no buffer at all to SIZE + 1 buffers.
\* A queue with indirect descriptors takes a chain of any length in one
\* slot, so it is given the long chains only.
ShapeNone == << <<>>, <<>> >>
ShapeOne == << <<BufA>>, <<>> >>
ShapeThree == << <<BufB, BufA>>, <<2>> >>
ShapeFour == << <<BufB, BufA>>, <<2, 1>> >>
ShapeFive == << <<BufA, BufB, BufA>>, <<2, 1>> >>
Shapes(indirect) ==
    IF indirect THEN {ShapeNone, ShapeFour, ShapeFive}
    ELSE {ShapeNone, ShapeOne, ShapeThree, ShapeFive}

Inputs(data, slot) ==
    [i \in 1 .. Len(data) |-> Buffer(Vaddr(1, slot, i), Len(data[i]), data[i])]
Outputs(lens, slot) ==
    [i \in 1 .. Len(lens) |-> Buffer(Vaddr(2, slot, i), lens[i], Zeros(lens[i]))]

\* The direct descriptors a sequence of stores writes, in the order written.
RECURSIVE DescsOf(_, _)
DescsOf(stores, acc) ==
    IF stores = <<>> THEN acc
    ELSE LET w == Head(stores)
         IN  DescsOf(Tail(stores),
                     IF w.t = "desc" /\ w.i \notin Range(acc) THEN Append(acc, w.i)
                     ELSE acc)

\* A queue that has already been through `start` add/pop_used rounds of a
\* one-descriptor chain: as after new, but for the ring indices.
Aged(q, start) == [q EXCEPT !.avail_idx = start, !.last_used_idx = start]
AgedShm(m, start, event_idx) ==
    [m EXCEPT !.avail.idx = start, !.used.idx = start,
              !.avail.used_event = IF event_idx THEN start ELSE 0,
              !.used.ring = [i \in Slots |->
                                [id |-> 0, len |-> IF start = 0 THEN 0 ELSE 1]]]
\* The configurations checked: with and without indirect descriptors, with
\* and without event_idx, fresh and two adds before the indices wrap.
Configs ==
    {[indirect |-> FALSE, event_idx |-> FALSE, start |-> 0],
     [indirect |-> FALSE, event_idx |-> TRUE, start |-> U16 - 2],
     [indirect |-> TRUE, event_idx |-> FALSE, start |-> U16 - 2],
     [indirect |-> TRUE, event_idx |-> TRUE, start |-> 0]}

InitQueue(c) ==
    /\ vq = Aged(new(c.indirect, c.event_idx), c.start)
    /\ shm = AgedShm(ShmInit, c.start, c.event_idx)
    /\ hal = HalInit
    /\ chains = [h \in Slots |-> None]
    /\ last = Last("new", "Ok", 0)
    /\ adds = 0
    /\ pend = <<>>
    /\ dq = None
    /\ got = None

Init ==
    \E c \in Configs :
        /\ InitQueue(c)
        /\ twin = None
        /\ mgr = None

\* The driver calls add.
Add ==
    \E shape \in Shapes(vq.indirect) :
        LET slot == vq.free_head
            inputs == Inputs(shape[1], slot)
            outputs == Outputs(shape[2], slot)
            r == add(vq, hal, inputs, outputs)
        IN  /\ r.ret = "Ok" => adds < MaxAdds
            /\ vq' = r.vq
            /\ hal' = r.hal
            /\ shm' = ApplyStores(shm, r.stores)
            /\ chains' = IF r.ret = "Ok"
                         THEN [chains EXCEPT ![r.val] =
                                  Chain(inputs, outputs, DescsOf(r.stores, <<>>), FALSE)]
                         ELSE chains
            /\ adds' = IF r.ret = "Ok" THEN adds + 1 ELSE adds
            /\ last' = Last("add", r.ret, r.val)
            /\ UNCHANGED <<pend, dq, got, twin, mgr>>

\* The length the device reports for a chain: the bytes it read and wrote.
RECURSIVE SumLen(_)
SumLen(bufs) == IF bufs = <<>> THEN 0 ELSE Head(bufs).len + SumLen(Tail(bufs))
UsedLen(c) == SumLen(c.inputs) + SumLen(c.outputs)

\* The device completes one of the chains in flight, in any order.
DeviceUse ==
    \E h \in Slots :
        /\ chains[h] # None
        /\ ~chains[h].used
        /\ shm' = [shm EXCEPT
                      !.used.ring[Mask(shm.used.idx)] =
                          [id |-> h, len |-> UsedLen(chains[h])],
                      !.used.idx = wrapping_add(@, 1)]
        /\ chains' = [chains EXCEPT ![h].used = TRUE]
        /\ last' = Last("device", "Ok", h)
        /\ UNCHANGED <<vq, hal, adds, pend, dq, got, twin, mgr>>

\* The driver calls pop_used with a token and that chain's buffers.
PopUsed ==
    \E token \in Slots :
        LET c == chains[token]
            inputs == IF c = None THEN <<>> ELSE c.inputs
            outputs == IF c = None THEN <<>> ELSE c.outputs
            r == pop_used(vq, shm, hal, token, inputs, outputs)
        IN  /\ vq' = r.vq
            /\ hal' = r.hal
            /\ shm' = ApplyStores(shm, r.stores)
            /\ chains' = IF r.ret = "Ok" THEN [chains EXCEPT ![token] = None]
                         ELSE chains
            /\ last' = Last("pop_used", r.ret, r.val)
            /\ UNCHANGED <<adds, pend, dq, got, twin, mgr>>

Next == Add \/ DeviceUse \/ PopUsed

Spec == Init /\ [][Next]_vars

\* ------------------------------------------------- driver and device queue
\* The pair of tests::create_queues: no indirect descriptors, event_idx
\* negotiated; fresh, and one add before the indices wrap.
PairConfigs ==
    {[indirect |-> FALSE, event_idx |-> TRUE, start |-> 0],
     [indirect |-> FALSE, event_idx |-> TRUE, start |-> U16 - 1]}

\* The chains the tests send: one input, inputs split over two descriptors,
\* one output for the device to fill, and a mix of both.
ShapeSplit == << <<BufB, BufA>>, <<>> >>
ShapeRecv == << <<>>, <<2>> >>
ShapeMixed == << <<BufA>>, <<2>> >>
PairShapes == {ShapeOne, ShapeSplit, ShapeRecv, ShapeMixed}
\* What the device sends: one buffer, and two buffers.
SendData == { << <<7>> >>, << <<8>>, <<9>> >> }

PairInit ==
    \E c \in PairConfigs :
        /\ vq = Aged(new(c.indirect, c.event_idx), c.start)
        /\ shm = AgedShm(ShmInit, c.start, c.event_idx)
        /\ hal = HalInit
        /\ chains = [h \in Slots |-> None]
        /\ last = Last("new", "Ok", 0)
        /\ adds = 0
        /\ pend = <<>>
        /\ dq = Aged(dev_new, c.start)
        /\ got = None
        /\ twin = None
        /\ mgr = None

\* The driver calls add: its private fields and the HAL change at once, its
\* stores to shared memory follow one by one, in program order.
PairAdd ==
    /\ pend = <<>>
    /\ \E shape \in PairShapes :
        LET slot == vq.free_head
            inputs == Inputs(shape[1], slot)
            outputs == Outputs(shape[2], slot)
            r == add(vq, hal, inputs, outputs)
        IN  /\ r.ret = "Ok" => adds < MaxPairAdds
            /\ vq' = r.vq
            /\ hal' = r.hal
            /\ pend' = r.stores
            /\ chains' = IF r.ret = "Ok"
                         THEN [chains EXCEPT ![r.val] =
                                  Chain(inputs, outputs, DescsOf(r.stores, <<>>), FALSE)]
                         ELSE chains
            /\ adds' = IF r.ret = "Ok" THEN adds + 1 ELSE adds
            /\ last' = Last("add", r.ret, r.val)
            /\ got' = None
            /\ UNCHANGED <<shm, dq, twin, mgr>>

\* The next store of the driver's call reaches shared memory.
PairStore ==
    /\ pend # <<>>
    /\ shm' = ApplyStore(shm, Head(pend))
    /\ pend' = Tail(pend)
    /\ UNCHANGED <<vq, hal, chains, last, adds, dq, got, twin, mgr>>

\* The driver calls pop_used with a token and that chain's buffers.
PairPop ==
    /\ pend = <<>>
    /\ \E token \in Slots :
        LET c == chains[token]
            inputs == IF c = None THEN <<>> ELSE c.inputs
            outputs == IF c = None THEN <<>> ELSE c.outputs
            r == pop_used(vq, shm, hal, token, inputs, outputs)
        IN  /\ vq' = r.vq
            /\ hal' = r.hal
            /\ pend' = r.stores
            /\ chains' = IF r.ret = "Ok" THEN [chains EXCEPT ![token] = None]
                         ELSE chains
            /\ got' = IF r.ret = "Ok" THEN [chain |-> c, bufs |-> r.bufs] ELSE None
            /\ last' = Last("pop_used", r.ret, r.val)
            /\ UNCHANGED <<shm, adds, dq, twin, mgr>>

\* What the device did to the chain with head h, for the caller to compare.
Observe(cs, q, r, field) ==
    IF r.dq.last_used_idx # q.last_used_idx /\ r.head \in Slots /\ cs[r.head] # None
    THEN [cs EXCEPT ![r.head].used = TRUE, ![r.head][field] = r.val]
    ELSE cs

\* The device calls poll.
DevPoll ==
    \E result \in HandlerResults :
        LET r == poll(dq, shm, hal, result)
        IN  /\ dq' = r.dq
            /\ shm' = r.shm
            /\ chains' = Observe(chains, dq, r, "seen")
            /\ last' = Last("poll", r.ret, r.head)
            /\ UNCHANGED <<vq, hal, adds, pend, got, twin, mgr>>

\* The device calls wait_pop_add_notify, which returns once can_pop holds.
DevSend ==
    /\ dev_can_pop(dq, shm)
    /\ \E in_bufs \in SendData :
        LET r == wait_pop_add_notify(dq, shm, hal, in_bufs)
        IN  /\ dq' = r.dq
            /\ shm' = r.shm
            /\ hal' = r.hal
            /\ chains' = Observe(chains, dq, r, "wrote")
            /\ last' = Last("wait_pop_add_notify", r.ret, r.head)
            /\ UNCHANGED <<vq, adds, pend, got, twin, mgr>>

PairNext == PairAdd \/ PairStore \/ PairPop \/ DevPoll \/ DevSend

SpecPair == PairInit /\ [][PairNext]_vars

\* ------------------------------------------------------------ the two runs
\* The second run: the same calls and the same used ring as the first, and
\* a device that also overwrites the live descriptor table.
Twin(q, m, l, res) == [vq |-> q, shm |-> m, hal |-> l, last |-> res]

TwinConfigs ==
    {[indirect |-> FALSE, event_idx |-> TRUE, start |-> 0],
     [indirect |-> TRUE, event_idx |-> FALSE, start |-> U16 - 1]}
TwinShapes(indirect) ==
    IF indirect THEN {ShapeFour} ELSE {ShapeOne, ShapeThree}

\* What the device writes over the descriptor table: ends of chains, links
\* to the descriptor after the next, indirect descriptors.
TamperTables ==
    {[i \in Slots |-> ZeroDesc],
     [i \in Slots |-> Descriptor(DmaOffset, 1, NEXT + WRITE, (i + 2) % SIZE)],
     [i \in Slots |-> Descriptor(DmaOffset, DescBytes, INDIRECT, 0)]}

TwinInit ==
    \E c \in TwinConfigs :
        /\ InitQueue(c)
        /\ twin = Twin(vq, shm, hal, last)
        /\ mgr = None

\* Both runs call add with the same buffers.
TwinAdd ==
    \E shape \in TwinShapes(vq.indirect) :
        LET slot == vq.free_head
            inputs == Inputs(shape[1], slot)
            outputs == Outputs(shape[2], slot)
            r == add(vq, hal, inputs, outputs)
            t == add(twin.vq, twin.hal, inputs, outputs)
        IN  /\ r.ret = "Ok" => adds < MaxTwinAdds
            /\ vq' = r.vq
            /\ hal' = r.hal
            /\ shm' = ApplyStores(shm, r.stores)
            /\ chains' = IF r.ret = "Ok"
                         THEN [chains EXCEPT ![r.val] =
                                  Chain(inputs, outputs, DescsOf(r.stores, <<>>), FALSE)]
                         ELSE chains
            /\ adds' = IF r.ret = "Ok" THEN adds + 1 ELSE adds
            /\ last' = Last("add", r.ret, r.val)
            /\ twin' = Twin(t.vq, ApplyStores(twin.shm, t.stores), t.hal,
                            Last("add", t.ret, t.val))
            /\ UNCHANGED <<pend, dq, got, mgr>>

\* The device completes a chain in flight: the same used element in both
\* runs.
TwinDeviceUse ==
    \E h \in Slots :
        LET elem == [id |-> h, len |-> UsedLen(chains[h])]
        IN  /\ chains[h] # None
            /\ ~chains[h].used
            /\ shm' = [shm EXCEPT !.used.ring[Mask(shm.used.idx)] = elem,
                                  !.used.idx = wrapping_add(@, 1)]
            /\ twin' = [twin EXCEPT
                           !.shm.used.ring[Mask(twin.shm.used.idx)] = elem,
                           !.shm.used.idx = wrapping_add(@, 1),
                           !.last = Last("device", "Ok", h)]
            /\ chains' = [chains EXCEPT ![h].used = TRUE]
            /\ last' = Last("device", "Ok", h)
            /\ UNCHANGED <<vq, hal, adds, pend, dq, got, mgr>>

\* In the second run the device overwrites the live descriptor table.
Tamper ==
    /\ \E table \in TamperTables :
          /\ twin.shm.desc # table
          /\ twin' = [twin EXCEPT !.shm.desc = table]
    /\ UNCHANGED <<vq, shm, hal, chains, last, adds, pend, dq, got, mgr>>

\* Both runs call pop_used with the same token and buffers.
TwinPop ==
    \E token \in Slots :
        LET c == chains[token]
            inputs == IF c = None THEN <<>> ELSE c.inputs
            outputs == IF c = None THEN <<>> ELSE c.outputs
            r == pop_used(vq, shm, hal, token, inputs, outputs)
            t == pop_used(twin.vq, twin.shm, twin.hal, token, inputs, outputs)
        IN  /\ vq' = r.vq
            /\ hal' = r.hal
            /\ shm' = ApplyStores(shm, r.stores)
            /\ chains' = IF r.ret = "Ok" THEN [chains EXCEPT ![token] = None]
                         ELSE chains
            /\ last' = Last("pop_used", r.ret, r.val)
            /\ twin' = Twin(t.vq, ApplyStores(twin.shm, t.stores), t.hal,
                            Last("pop_used", t.ret, t.val))
            /\ UNCHANGED <<adds, pend, dq, got, mgr>>

TwinNext == TwinAdd \/ TwinDeviceUse \/ Tamper \/ TwinPop

SpecTamper == TwinInit /\ [][TwinNext]_vars

\* ---------------------------------------------------------------- claims
Heads == {h \in Slots : chains[h] # None}
BuffersOf(c) == InputOutputIter(c.inputs, c.outputs)

\* The descriptors of the chains in flight.
InFlightDescs == UNION {Range(chains[h].descs) : h \in Heads}

\* The free list: the first SIZE - num_used descriptors reached from
\* free_head through the next fields of the shadow table.
RECURSIVE FreeWalk(_, _, _)
FreeWalk(q, i, n) ==
    IF n <= 0 THEN <<>>
    ELSE <<i>> \o FreeWalk(q, q.desc_shadow[i].next, n - 1)
FreeList(q) == FreeWalk(q, q.free_head, SIZE - q.num_used)

\* C1: num_used plus the length of the free list is SIZE, num_used counts
\* the descriptors of the chains in flight, the free descriptors are
\* pairwise distinct and none of them belongs to a chain in flight.
C1_FreeList ==
    /\ vq.num_used \in 0 .. SIZE
    /\ vq.num_used = Cardinality(InFlightDescs)
    /\ vq.num_used + Cardinality(Range(FreeList(vq))) = SIZE
    /\ Range(FreeList(vq)) \cap InFlightDescs = {}
    /\ Range(FreeList(vq)) \cup InFlightDescs = Slots

\* A chain was popped while another was still in flight, after the device
\* completed them out of order.
C1_Witness ==
    /\ last.op = "pop_used" /\ last.ret = "Ok"
    /\ vq.num_used > 0
    /\ vq.free_head # 0
    /\ vq.desc_shadow[vq.free_head].next # (vq.free_head + 1) % SIZE

\* The region the HAL holds for a buffer, if it holds exactly one.
RegionsOf(buffer) == {r \in hal.regions : r.vaddr = buffer.vaddr}

\* The descriptor the driver keeps for buffer i of the chain with head h:
\* in the shadow table for a direct chain, in the indirect list otherwise.
IsIndirect(h) == vq.indirect_lists[h] # None
DriverDesc(h, i) ==
    IF IsIndirect(h) THEN vq.indirect_lists[h][i]
    ELSE vq.desc_shadow[chains[h].descs[i]]

\* The regions a chain in flight accounts for: one per buffer, and one for
\* the indirect list.
RegionCount(h) == Len(BuffersOf(chains[h])) + (IF IsIndirect(h) THEN 1 ELSE 0)
RECURSIVE SumOver(_, _)
SumOver(S, f) ==
    IF S = {} THEN 0
    ELSE LET x == CHOOSE y \in S : TRUE IN f[x] + SumOver(S \ {x}, f)

\* What a step does to the HAL's regions: a successful add shares the
\* buffers of its chain (and the indirect list) and nothing else, a
\* successful pop_used unshares the regions of the chain it pops and nothing
\* else, and every other step leaves the regions alone.
PoppedHeads == {h \in Heads : chains'[h] = None}
VaddrsOf(q, cs, h) ==
    {BuffersOf(cs[h])[i].buffer.vaddr : i \in 1 .. Len(BuffersOf(cs[h]))}
        \cup (IF q.indirect_lists[h] # None THEN {ListVaddr(h)} ELSE {})
C3_Step ==
    IF last'.op = "add" /\ last'.ret = "Ok"
    THEN /\ hal.regions \subseteq hal'.regions
         /\ {r.vaddr : r \in hal'.regions \ hal.regions} = VaddrsOf(vq', chains', last'.val)
    ELSE IF last'.op = "pop_used" /\ last'.ret = "Ok"
    THEN /\ hal'.regions \subseteq hal.regions
         /\ Cardinality(PoppedHeads) = 1
         /\ \A h \in PoppedHeads :
               {r.vaddr : r \in hal.regions \ hal'.regions} = VaddrsOf(vq, chains, h)
    ELSE hal'.regions = hal.regions

\* C3 (state part): between operations, every buffer of a chain in flight is shared
\* exactly once, under the address its descriptor holds and in its own
\* direction; the buffers of popped chains are not shared any more; the
\* indirect list is shared once as well; and no share or unshare ever broke
\* the HAL's contract (no second share of a shared buffer, no unshare of an
\* address that is not shared or with another buffer than the one shared).
C3_Shared ==
    /\ ~hal.bad
    /\ \A h \in Heads :
          /\ \A i \in 1 .. Len(BuffersOf(chains[h])) :
                LET b == BuffersOf(chains[h])[i]
                IN  /\ Cardinality(RegionsOf(b.buffer)) = 1
                    /\ \A r \in RegionsOf(b.buffer) :
                          /\ r.paddr = DriverDesc(h, i).addr
                          /\ r.direction = b.direction
                          /\ r.len = b.buffer.len
          /\ IsIndirect(h) =>
                /\ Len(chains[h].descs) = 1
                /\ \E r \in hal.regions :
                      /\ r.vaddr = ListVaddr(h)
                      /\ r.paddr = vq.desc_shadow[h].addr
                      /\ r.direction = "DriverToDevice"
    /\ Cardinality(hal.regions) = SumOver(Heads, [h \in Slots |-> RegionCount(h)])

\* C3: every buffer passed to a successful add is shared exactly once, by
\* that add; it stays shared, under the address share returned, until the
\* pop_used that pops its chain unshares it, exactly once; no other step
\* shares or unshares anything. For direct and for indirect chains.
C3_ShareOnce == [] C3_Shared /\ [][C3_Step]_vars

\* An indirect chain was popped while another chain stays in flight.
C3_Witness ==
    /\ last.op = "pop_used" /\ last.ret = "Ok"
    /\ vq.indirect
    /\ Heads # {}
    /\ \E h \in Heads : IsIndirect(h)

\* ---- add, tried in the current state
\* The non-empty chains of the catalogue, whatever the queue's mode.
Catalog == {ShapeOne, ShapeThree, ShapeFour, ShapeFive}
ChainLen(shape) == Len(shape[1]) + Len(shape[2])
TryAdd(shape) ==
    add(vq, hal, Inputs(shape[1], vq.free_head), Outputs(shape[2], vq.free_head))

\* C5: without indirect descriptors, in every reachable state and for every
\* non-empty chain, add fails with QueueFull exactly when num_used plus the
\* chain's length exceeds SIZE, and otherwise succeeds and adds the chain's
\* length to num_used.
C5_QueueFull ==
    ~vq.indirect =>
        \A shape \in Catalog :
            LET r == TryAdd(shape)
                n == ChainLen(shape)
            IN  /\ r.ret = "QueueFull" <=> vq.num_used + n > SIZE
                /\ r.ret # "QueueFull" =>
                      /\ r.ret = "Ok"
                      /\ r.vq.num_used = vq.num_used + n

\* add has just failed with QueueFull although descriptors are free, and a
\* chain that fills the table exactly would still be accepted.
C5_Witness ==
    /\ ~vq.indirect
    /\ last.op = "add" /\ last.ret = "QueueFull"
    /\ vq.num_used = 1
    /\ TryAdd(ShapeThree).ret = "Ok"

\* C6: with indirect descriptors, in every reachable state, add of a chain
\* longer than one succeeds exactly when a direct descriptor is free and the
\* chain is no longer than SIZE; it then takes one direct descriptor, the
\* head, whose flags are INDIRECT alone and whose len is 16 times the chain's
\* length; available_desc is SIZE while a direct descriptor is free and 0
\* otherwise.
C6_Indirect ==
    vq.indirect =>
        /\ available_desc(vq) = IF vq.num_used < SIZE THEN SIZE ELSE 0
        /\ \A shape \in {x \in Catalog : ChainLen(x) > 1} :
              LET r == TryAdd(shape)
                  n == ChainLen(shape)
                  h == vq.free_head
              IN  /\ r.ret = "Ok" <=> (vq.num_used < SIZE /\ n <= SIZE)
                  /\ r.ret = "Ok" =>
                        /\ r.val = h
                        /\ r.vq.num_used = vq.num_used + 1
                        /\ DescsOf(r.stores, <<>>) = <<h>>
                        /\ r.vq.desc_shadow[h].flags = INDIRECT
                        /\ r.vq.desc_shadow[h].len = 16 * n
                        /\ ApplyStores(shm, r.stores).desc[h] = r.vq.desc_shadow[h]
                        /\ available_desc(r.vq) =
                              IF r.vq.num_used < SIZE THEN SIZE ELSE 0
        /\ \A h \in Heads :
              /\ Len(BuffersOf(chains[h])) > 1 => IsIndirect(h)
              /\ IsIndirect(h) =>
                    /\ chains[h].descs = <<h>>
                    /\ shm.desc[h].flags = INDIRECT
                    /\ shm.desc[h].len = 16 * Len(BuffersOf(chains[h]))

\* An indirect chain has just been added next to others in flight, and
\* direct descriptors are still free.
C6_Witness ==
    /\ vq.indirect
    /\ last.op = "add" /\ last.ret = "Ok"
    /\ vq.num_used \in 2 .. (SIZE - 1)
    /\ available_desc(vq) = SIZE

\* The descriptors of the chain with head h as the device finds them: in the
\* descriptor table, or in the region of the indirect list.
ListRegion(h) == CHOOSE r \in hal.regions : r.paddr = shm.desc[h].addr
ChainDescs(h) ==
    IF IsIndirect(h) THEN ListRegion(h).data
    ELSE [i \in 1 .. Len(chains[h].descs) |-> shm.desc[chains[h].descs[i]]]
\* What the next field of descriptor i of the chain has to be.
Following(h, i) == IF IsIndirect(h) THEN i ELSE chains[h].descs[i + 1]

\* C7: every chain in flight starts at its head and lists the input buffers
\* in order and then the output buffers in order: WRITE is set on the
\* outputs only, NEXT on all but the last descriptor, next leads to the
\* following descriptor of the chain, and len is the (positive) length of
\* the buffer whose shared address the descriptor holds.
C7_ChainLayout ==
    \A h \in Heads :
        LET bufs == chains[h].inputs \o chains[h].outputs
            inputs_len == Len(chains[h].inputs)
            ds == ChainDescs(h)
        IN  /\ Len(ds) = Len(bufs)
            /\ IsIndirect(h) \/ chains[h].descs[1] = h
            /\ \A i \in 1 .. Len(bufs) :
                  /\ Contains(ds[i].flags, WRITE) <=> i > inputs_len
                  /\ Contains(ds[i].flags, NEXT) <=> i < Len(bufs)
                  /\ ~Contains(ds[i].flags, INDIRECT)
                  /\ i < Len(bufs) => ds[i].next = Following(h, i)
                  /\ ds[i].len = bufs[i].len
                  /\ ds[i].len > 0
                  /\ ds[i].addr = PhysAddr(bufs[i].vaddr)

\* A direct chain of inputs and outputs has just been added on descriptors
\* that do not follow one another in the table.
C7_Witness ==
    /\ last.op = "add" /\ last.ret = "Ok"
    /\ ~IsIndirect(last.val)
    /\ Len(chains[last.val].inputs) >= 2
    /\ Len(chains[last.val].outputs) >= 1
    /\ chains[last.val].descs[2] # chains[last.val].descs[1] + 1

\* C8: a step in which add returns InvalidParam or QueueFull leaves the
\* queue's private fields (num_used, free_head, the shadow table, ...), the
\* shared memory (descriptor table, available ring, avail.idx) and the HAL
\* (no share) as they were.
C8_AddErrorFrame ==
    [][(last'.op = "add" /\ last'.ret \in {"InvalidParam", "QueueFull"})
           => UNCHANGED <<vq, shm, hal, chains>>]_vars

\* add has just refused a chain longer than the table on a queue with
\* indirect descriptors that holds chains in flight.
C8_Witness ==
    /\ last.op = "add" /\ last.ret = "QueueFull"
    /\ vq.indirect
    /\ vq.num_used \in 1 .. (SIZE - 1)
    /\ hal.regions # {}

\* ---- pop_used, tried in the current state
TryPop(q, m, l, cs, token) ==
    pop_used(q, m, l, token,
             IF cs[token] = None THEN <<>> ELSE cs[token].inputs,
             IF cs[token] = None THEN <<>> ELSE cs[token].outputs)
UsedId(q, m) == m.used.ring[Mask(q.last_used_idx)].id

\* In every state and for every token: NotReady exactly when last_used_idx
\* equals used.idx, otherwise WrongToken exactly when the id of the used
\* element differs from the token, otherwise success; the failing calls
\* store nothing and hand back the queue and the HAL as they were.
C10_State ==
    \A token \in Slots :
        LET r == TryPop(vq, shm, hal, chains, token)
        IN  /\ r.ret = "NotReady" <=> vq.last_used_idx = shm.used.idx
            /\ r.ret = "WrongToken" <=>
                  (vq.last_used_idx # shm.used.idx /\ UsedId(vq, shm) # token)
            /\ r.ret \in {"NotReady", "WrongToken", "Ok"}
            /\ r.ret \in {"NotReady", "WrongToken"} =>
                  /\ r.vq = vq
                  /\ r.hal = hal
                  /\ r.stores = <<>>

\* A step in which pop_used fails changes nothing, and after WrongToken the
\* call with the id of the used element succeeds.
C10_Step ==
    (last'.op = "pop_used" /\ last'.ret \in {"NotReady", "WrongToken"}) =>
        /\ UNCHANGED <<vq, shm, hal, chains>>
        /\ last'.ret = "WrongToken" =>
              TryPop(vq', shm', hal', chains', UsedId(vq', shm')).ret = "Ok"

\* C10: pop_used returns NotReady when last_used_idx equals used.idx and
\* WrongToken when the id of the next used element is not the token; either
\* way num_used, free_head, the shadow table, last_used_idx, used_event and
\* the HAL's regions stay as they were, and pop_used with the right token
\* then succeeds.
C10_PopErrors == [] C10_State /\ [][C10_Step]_vars

\* pop_used has just been called with the token of a chain the device
\* completed second.
C10_Witness ==
    /\ last.op = "pop_used" /\ last.ret = "WrongToken"
    /\ Cardinality({h \in Heads : chains[h].used}) >= 2
    /\ vq.num_used >= 2

\* ---- driver against DeviceVirtQueue
\* The bytes of a sequence of the caller's buffers, one after the other.
RECURSIVE Bytes(_)
Bytes(bufs) == IF bufs = <<>> THEN <<>> ELSE Head(bufs).data \o Bytes(Tail(bufs))

\* C2: when pop_used succeeds, the chain it pops was completed by the device;
\* if the device polled it, the bytes the handler was given are the caller's
\* input buffers one after the other; if the device sent into it, the
\* caller's output buffers hold, after the pop, what the device wrote (in
\* the first buffer, zeroes after it); and the input buffers are as the
\* caller passed them.
C2_Payload ==
    (last.op = "pop_used" /\ last.ret = "Ok") =>
        /\ got # None
        /\ got.chain # None
        /\ got.chain.used
        /\ LET c == got.chain
               n == Len(c.inputs)
               back == Bytes([j \in 1 .. Len(c.outputs) |-> got.bufs[n + j]])
           IN  /\ Len(got.bufs) = n + Len(c.outputs)
               /\ \A i \in 1 .. n : got.bufs[i] = c.inputs[i]
               /\ c.outputs = <<>> => c.seen = Bytes(c.inputs)
               /\ c.outputs # <<>> =>
                     /\ c.inputs = <<>>
                     /\ c.wrote # <<>>
                     /\ Len(back) = SumLen(c.outputs)
                     /\ \A k \in 1 .. Len(back) :
                           back[k] = IF k <= Len(c.wrote) THEN c.wrote[k] ELSE 0
                     /\ \A j \in 1 .. Len(c.outputs) :
                           /\ got.bufs[n + j].vaddr = c.outputs[j].vaddr
                           /\ got.bufs[n + j].len = c.outputs[j].len

\* The driver has popped a chain the device filled with two buffers, while
\* a chain split over two descriptors that the device polled is in flight.
C2_Witness ==
    /\ last.op = "pop_used" /\ last.ret = "Ok"
    /\ got.chain.wrote = <<8, 9>>
    /\ got.bufs[1].data = <<8, 9>>
    /\ \E h \in Heads : chains[h].seen = <<2, 3, 1>>

\* The entries of the available ring the device has still to pop.
Window == (shm.avail.idx - dq.avail_idx) % U16
\* The chain with head h is in the descriptor table as add leaves it.
Written(h) ==
    /\ chains[h] # None
    /\ LET bufs == chains[h].inputs \o chains[h].outputs
           ds == chains[h].descs
       IN  /\ Len(ds) = Len(bufs)
           /\ ds[1] = h
           /\ \A i \in 1 .. Len(bufs) :
                 shm.desc[ds[i]] =
                     Descriptor(PhysAddr(bufs[i].vaddr), bufs[i].len,
                                (IF i < Len(bufs) THEN NEXT ELSE 0)
                                    + (IF i > Len(chains[h].inputs) THEN WRITE ELSE 0),
                                shm.desc[ds[i]].next)
                 /\ (i < Len(bufs) => shm.desc[ds[i]].next = ds[i + 1])
IdxStores(ws) == {i \in DOMAIN ws : ws[i].t = "idx"}

\* Whenever the device may look: every entry below avail.idx that it has not
\* popped holds the head of a chain whose descriptors are all written.
C9_State ==
    /\ Window <= SIZE
    /\ \A j \in 0 .. (Window - 1) :
          Written(shm.avail.ring[Mask(dq.avail_idx + j)])
    /\ pend = <<>> => shm.avail.idx = vq.avail_idx

\* A store to avail.idx adds exactly one (mod 2^16), changes nothing else
\* and is the last store of its add; a successful add makes exactly one
\* such store, a failing add none.
C9_Step ==
    /\ shm'.avail.idx # shm.avail.idx =>
          /\ shm'.avail.idx = (shm.avail.idx + 1) % 65536
          /\ shm'.avail.ring = shm.avail.ring
          /\ shm'.desc = shm.desc
          /\ pend' = <<>>
          /\ Written(shm.avail.ring[Mask(shm.avail.idx)])
    /\ adds' # adds =>
          /\ Cardinality(IdxStores(pend')) = 1
          /\ pend'[Len(pend')] = Store("idx", 0, ZeroDesc, (shm.avail.idx + 1) % 65536)
    /\ (last'.op = "add" /\ last'.ret # "Ok") => IdxStores(pend') = {}

\* C9: in every interleaving of the stores of add with the device, once
\* avail.idx is n the ring slot of entry n - 1 holds the head and the chain's
\* descriptors are written: add stores the descriptors, then the ring slot,
\* then the index, which goes up by exactly one (mod 2^16) per successful
\* add.
C9_Publish == [] C9_State /\ [][C9_Step]_vars

\* The index has wrapped to 0, the device has not yet popped that entry, and
\* the driver is in the middle of the stores of its next add.
C9_Witness ==
    /\ shm.avail.idx = 0
    /\ Window = 1
    /\ adds = 2
    /\ pend # <<>>
    /\ Head(pend).t = "ring"

\* ---- two runs that differ in the live descriptor table only
\* C4: whatever the device writes into the live descriptor table of the
\* second run, the two runs agree on the driver's private fields (num_used,
\* free_head, desc_shadow, avail_idx, last_used_idx, the indirect lists), on
\* what every call returned, on the HAL's regions (so on every share and
\* unshare) and on what the driver wrote to the available ring.
C4_NoReadBack ==
    /\ twin.vq = vq
    /\ twin.last = last
    /\ twin.hal = hal
    /\ twin.shm.avail = shm.avail
    /\ twin.shm.used = shm.used

\* pop_used has just recycled a chain in both runs (its head is written
\* back in both tables) after the device had overwritten the descriptor
\* table of the second run, where the chain still in flight stays
\* overwritten.
C4_Witness ==
    /\ last.op = "pop_used" /\ last.ret = "Ok"
    /\ adds = MaxTwinAdds
    /\ twin.shm.desc[vq.free_head] = shm.desc[vq.free_head]
    /\ \E h \in Heads : \A i \in Range(chains[h].descs) :
          twin.shm.desc[i] # shm.desc[i]

\* ---- what a successful pop_used does
\* The used_event stores among a sequence of stores.
UsedEventStores(stores) ==
    {stores[i].v : i \in {j \in 1 .. Len(stores) : stores[j].t = "used_event"}}

\* The step of a successful pop_used: the value returned is the len of the
\* used element at last_used_idx as it was before the call, last_used_idx
\* goes up by one (mod 2^16), num_used goes down by the number of direct
\* descriptors of the chain (one for an indirect chain, one per buffer
\* otherwise), and used_event is stored, with the new last_used_idx, exactly
\* when event_idx was negotiated.
C11_Step ==
    (last'.op = "pop_used" /\ last'.ret = "Ok") =>
        LET elem == shm.used.ring[vq.last_used_idx % SIZE]
            h == elem.id
            r == TryPop(vq, shm, hal, chains, h)
        IN  /\ last'.val = elem.len
            /\ vq'.last_used_idx = (vq.last_used_idx + 1) % 65536
            /\ vq.num_used - vq'.num_used = Len(chains[h].descs)
            /\ Len(chains[h].descs) =
                  IF IsIndirect(h) THEN 1 ELSE Len(BuffersOf(chains[h]))
            /\ UsedEventStores(r.stores) =
                  IF vq.event_idx THEN {vq'.last_used_idx} ELSE {}
            /\ shm'.avail.used_event =
                  IF vq.event_idx THEN vq'.last_used_idx ELSE shm.avail.used_event
            /\ shm'.used = shm.used

\* C11: a successful pop_used returns the len field of
\* used.ring[last_used_idx mod SIZE] as read before the pop, advances
\* last_used_idx by exactly one (mod 2^16), reduces num_used by the number of
\* direct descriptors the chain occupied (one for an indirect chain) and, if
\* and only if event_idx was negotiated, stores the new last_used_idx into
\* avail.used_event.
C11_PopUsed == [][C11_Step]_vars

\* pop_used has just popped a chain of several descriptors with event_idx
\* negotiated, and last_used_idx wrapped to 0 with it.
C11_Witness ==
    /\ last.op = "pop_used" /\ last.ret = "Ok" /\ last.val > 1
    /\ vq.event_idx
    /\ vq.last_used_idx = 0
    /\ shm.avail.used_event = 0
    /\ vq.num_used = 0

\* ------------------------------------------------ notification suppression
\* The queues of tests::set_dev_notify, add_notify and add_notify_event_idx:
\* no indirect descriptors, with and without event_idx; fresh, and two adds
\* before the indices wrap.
MaxNotifyAdds == 3
NotifyConfigs ==
    {[indirect |-> FALSE, event_idx |-> e, start |-> s] :
        e \in BOOLEAN, s \in {0, U16 - 2}}
\* The values the device stores into used.avail_event.
AvailEvents == {0, 1, U16 - 2, U16 - 1}

Bit(b) == IF b THEN 1 ELSE 0

NotifyInit ==
    \E c \in NotifyConfigs :
        /\ InitQueue(c)
        /\ twin = None
        /\ mgr = None

\* The driver adds a chain of one device-readable buffer.
NotifyAdd ==
    LET slot == vq.free_head
        inputs == Inputs(ShapeOne[1], slot)
        r == add(vq, hal, inputs, <<>>)
    IN  /\ r.ret = "Ok" => adds < MaxNotifyAdds
        /\ vq' = r.vq
        /\ hal' = r.hal
        /\ shm' = ApplyStores(shm, r.stores)
        /\ chains' = IF r.ret = "Ok"
                     THEN [chains EXCEPT ![r.val] =
                              Chain(inputs, <<>>, DescsOf(r.stores, <<>>), FALSE)]
                     ELSE chains
        /\ adds' = IF r.ret = "Ok" THEN adds + 1 ELSE adds
        /\ last' = Last("add", r.ret, r.val)
        /\ UNCHANGED <<pend, dq, got, twin, mgr>>

\* The device suppresses or asks for notifications: through used.flags
\* without event_idx, through used.avail_event with it.
DevSuppress ==
    /\ \/ /\ ~vq.event_idx
          /\ \E f \in {0, 1} : shm' = [shm EXCEPT !.used.flags = f]
       \/ /\ vq.event_idx
          /\ \E e \in AvailEvents : shm' = [shm EXCEPT !.used.avail_event = e]
    /\ last' = Last("suppress", "Ok", 0)
    /\ UNCHANGED <<vq, hal, chains, adds, pend, dq, got, twin, mgr>>

\* The driver asks whether it should notify the device.
ShouldNotify ==
    /\ last' = Last("should_notify", "Ok", Bit(should_notify(vq, shm)))
    /\ UNCHANGED <<vq, shm, hal, chains, adds, pend, dq, got, twin, mgr>>

\* The driver calls set_dev_notify.
SetDevNotify ==
    \E enable \in BOOLEAN :
        /\ shm' = ApplyStores(shm, set_dev_notify(vq, enable))
        /\ last' = Last("set_dev_notify", "Ok", Bit(enable))
        /\ UNCHANGED <<vq, hal, chains, adds, pend, dq, got, twin, mgr>>

\* The device asks whether it should notify the driver.
DevShouldNotify ==
    /\ last' = Last("dev_should_notify", "Ok", Bit(dev_should_notify(shm)))
    /\ UNCHANGED <<vq, shm, hal, chains, adds, pend, dq, got, twin, mgr>>

NotifyNext ==
    \/ NotifyAdd
    \/ DeviceUse
    \/ PopUsed
    \/ DevSuppress
    \/ ShouldNotify
    \/ SetDevNotify
    \/ DevShouldNotify

SpecNotify == NotifyInit /\ [][NotifyNext]_vars

\* What should_notify answers: without event_idx, whether bit 0 of
\* used.flags is clear; with it, whether avail_idx >= avail_event + 1.
C12_State ==
    should_notify(vq, shm) =
        IF vq.event_idx
        THEN vq.avail_idx >= (shm.used.avail_event + 1) % 65536
        ELSE shm.used.flags % 2 = 0

\* With event_idx and avail_event left alone, an add does not turn the
\* answer from true to false.
C12_Step ==
    (/\ last'.op = "add" /\ last'.ret = "Ok"
     /\ vq.event_idx
     /\ shm'.used.avail_event = shm.used.avail_event
     /\ should_notify(vq, shm))
        => should_notify(vq', shm')

\* C12: should_notify returns, without EVENT_IDX, exactly
\* (used.flags & 1 == 0) and, with EVENT_IDX, exactly the comparison
\* avail_idx >= avail_event + 1, so that for a fixed avail_event the answer
\* is monotonic in avail_idx over any sequence of adds, including those in
\* which avail_idx or avail_event + 1 wraps past 65535.
C12_ShouldNotify == [] C12_State /\ [][C12_Step]_vars

\* ---- set_dev_notify and the device's should_notify
\* Without event_idx avail.flags is 0 or 1; with it the flags stay 0, as
\* new left them.
C13_State ==
    /\ ~vq.event_idx => shm.avail.flags \in {0, 1}
    /\ vq.event_idx => shm.avail.flags = 0

\* set_dev_notify(false) stores 1 into avail.flags and set_dev_notify(true)
\* stores 0, unless event_idx was negotiated, when the flags are left alone;
\* the device's should_notify answers whether bit 0 of avail.flags is clear,
\* so it follows the driver's last set_dev_notify.
C13_Step ==
    /\ last'.op = "set_dev_notify" =>
          /\ shm'.avail.flags =
                IF vq.event_idx THEN shm.avail.flags
                ELSE IF last'.val = 1 THEN 0 ELSE 1
          /\ shm' = [shm EXCEPT !.avail.flags = shm'.avail.flags]
          /\ ~vq.event_idx => (dev_should_notify(shm') <=> last'.val = 1)
    /\ last'.op = "dev_should_notify" =>
          (last'.val = 1 <=> shm.avail.flags \in {0, 2})

\* C13: without event_idx, set_dev_notify(false) sets avail.flags to 1 and
\* set_dev_notify(true) sets it to 0 (it is 0 initially), and the device's
\* should_notify is true exactly when bit 0 of avail.flags is clear; with
\* event_idx, set_dev_notify leaves avail.flags unchanged.
C13_DevNotify == [] C13_State /\ [][C13_Step]_vars

\* The driver has turned notifications off, and the device has just found
\* that it should not notify.
C13_Witness ==
    /\ last.op = "dev_should_notify" /\ last.val = 0
    /\ ~vq.event_idx
    /\ shm.avail.flags = 1
    /\ adds > 0

\* ------------------------------------- the device against any driver
\* The device's queue reads whatever the driver left in the descriptor table
\* and the available ring. The tables tried: every descriptor with any of
\* the flags NEXT and WRITE, an address and a length of its own, linked
\* upwards or downwards round the table.
MaxPublish == 2
DescFlagSets == {0, NEXT, WRITE, NEXT + WRITE}
Strides == {1, SIZE - 1}
AnyTables ==
    {[i \in Slots |-> Descriptor(100 + i, i + 1, f[i], (i + stride) % SIZE)] :
        f \in [Slots -> DescFlagSets], stride \in Strides}
\* What the driver stores into a slot of the available ring: any u16, of
\* which SIZE stands for those that are not an index of the table.
AnyHeads == 0 .. SIZE

AvailInit ==
    \E table \in AnyTables :
        /\ vq = new(FALSE, FALSE)
        /\ shm = [AgedShm(ShmInit, U16 - 1, FALSE) EXCEPT !.desc = table]
        /\ hal = HalInit
        /\ chains = [h \in Slots |-> None]
        /\ last = Last("new", "Ok", 0)
        /\ adds = 0
        /\ pend = <<>>
        /\ dq = Aged(dev_new, U16 - 1)
        /\ got = None
        /\ twin = None
        /\ mgr = None

\* The driver makes one more entry of the available ring visible.
DrvPublish ==
    \E head \in AnyHeads :
        /\ adds < MaxPublish
        /\ shm' = [shm EXCEPT !.avail.ring[Mask(shm.avail.idx)] = head,
                              !.avail.idx = wrapping_add(@, 1)]
        /\ adds' = adds + 1
        /\ last' = Last("publish", "Ok", head)
        /\ UNCHANGED <<vq, hal, chains, pend, dq, got, twin, mgr>>

\* The device calls pop_avail. A call that never returns leaves no state
\* behind it.
DevPopAvail ==
    LET r == pop_avail(dq, shm)
    IN  /\ r.ret # "hang"
        /\ dq' = r.dq
        /\ got' = r
        /\ last' = Last("pop_avail", r.ret, r.head)
        /\ UNCHANGED <<vq, shm, hal, chains, adds, pend, twin, mgr>>

AvailNext == DrvPublish \/ DevPopAvail

SpecAvail == AvailInit /\ [][AvailNext]_vars

\* ---- pop_avail on any chain
\* The descriptors pop_avail visits from a head, in order: it follows next
\* while NEXT is set, for at most n descriptors.
RECURSIVE Visit(_, _, _)
Visit(m, token, n) ==
    IF n = 0 \/ token \notin Slots THEN <<>>
    ELSE <<token>> \o (IF Contains(m.desc[token].flags, NEXT)
                       THEN Visit(m, m.desc[token].next, n - 1)
                       ELSE <<>>)
IsWrite(m, token) == (m.desc[token].flags \div WRITE) % 2 = 1
\* The buffers of the descriptors of one class among those visited.
RECURSIVE ClassOf(_, _, _)
ClassOf(m, tokens, write) ==
    IF tokens = <<>> THEN <<>>
    ELSE (IF IsWrite(m, Head(tokens)) = write
          THEN <<[paddr |-> m.desc[Head(tokens)].addr,
                  len |-> m.desc[Head(tokens)].len]>>
          ELSE <<>>) \o ClassOf(m, Tail(tokens), write)
ReadAfterWrite(m, tokens) ==
    \E i, j \in 1 .. Len(tokens) :
        i < j /\ IsWrite(m, tokens[i]) /\ ~IsWrite(m, tokens[j])

MaxUsedAdds == 3
UsedShapes == {ShapeOne, ShapeRecv}
UsedEntry(n, id, len) == [n |-> n, id |-> id, len |-> len]

UsedInit ==
    \E c \in PairConfigs :
        /\ vq = Aged(new(c.indirect, c.event_idx), c.start)
        /\ shm = AgedShm(ShmInit, c.start, c.event_idx)
        /\ hal = HalInit
        /\ chains = [h \in Slots |-> None]
        /\ last = Last("new", "Ok", 0)
        /\ adds = 0
        /\ pend = <<>>
        /\ dq = Aged(dev_new, c.start)
        /\ got = <<>>
        /\ twin = None
        /\ mgr = None

\* The driver calls add.
UsedAdd ==
    \E shape \in UsedShapes :
        LET slot == vq.free_head
            inputs == Inputs(shape[1], slot)
            outputs == Outputs(shape[2], slot)
            r == add(vq, hal, inputs, outputs)
        IN  /\ r.ret = "Ok" => adds < MaxUsedAdds
            /\ vq' = r.vq
            /\ hal' = r.hal
            /\ shm' = ApplyStores(shm, r.stores)
            /\ chains' = IF r.ret = "Ok"
                         THEN [chains EXCEPT ![r.val] =
                                  Chain(inputs, outputs, DescsOf(r.stores, <<>>), FALSE)]
                         ELSE chains
            /\ adds' = IF r.ret = "Ok" THEN adds + 1 ELSE adds
            /\ last' = Last("add", r.ret, r.val)
            /\ UNCHANGED <<pend, dq, got, twin, mgr>>

\* The device calls poll: all of it but the stores of add_used, which are
\* still to come.
UsedPoll ==
    /\ pend = <<>>
    /\ \E result \in HandlerResults :
        LET r == poll(dq, shm, hal, result)
        IN  /\ dq' = r.dq
            /\ pend' = IF r.dq.last_used_idx # dq.last_used_idx
                       THEN add_used_stores(dq, r.head, 0)
                       ELSE <<>>
            /\ got' = IF r.dq.last_used_idx # dq.last_used_idx
                      THEN Append(got, UsedEntry(r.dq.last_used_idx, r.head, 0))
                      ELSE got
            /\ last' = Last("poll", r.ret, r.head)
            /\ UNCHANGED <<vq, shm, hal, chains, adds, twin, mgr>>

\* The device calls wait_pop_add_notify, likewise.
UsedSend ==
    /\ pend = <<>>
    /\ dev_can_pop(dq, shm)
    /\ \E in_bufs \in SendData :
        LET r == wait_pop_add_notify(dq, shm, hal, in_bufs)
            head_len == Len(Concat(in_bufs))
        IN  /\ dq' = r.dq
            /\ hal' = r.hal
            /\ pend' = IF r.dq.last_used_idx # dq.last_used_idx
                       THEN add_used_stores(dq, r.head, head_len)
                       ELSE <<>>
            /\ got' = IF r.dq.last_used_idx # dq.last_used_idx
                      THEN Append(got, UsedEntry(r.dq.last_used_idx, r.head, head_len))
                      ELSE got
            /\ last' = Last("wait_pop_add_notify", r.ret, r.head)
            /\ UNCHANGED <<vq, shm, chains, adds, twin, mgr>>

\* The next store of add_used reaches shared memory.
UsedStore ==
    /\ pend # <<>>
    /\ shm' = ApplyStore(shm, Head(pend))
    /\ pend' = Tail(pend)
    /\ UNCHANGED <<vq, hal, chains, last, adds, dq, got, twin, mgr>>

\* The driver calls can_pop.
UsedCanPop ==
    /\ last' = Last("can_pop", "Ok", Bit(can_pop(vq, shm)))
    /\ UNCHANGED <<vq, shm, hal, chains, adds, pend, dq, got, twin, mgr>>

\* The driver calls peek_used.
UsedPeek ==
    /\ last' = Last("peek_used", "Ok", peek_used(vq, shm))
    /\ UNCHANGED <<vq, shm, hal, chains, adds, pend, dq, got, twin, mgr>>

UsedNext ==
    \/ UsedAdd
    \/ UsedPoll
    \/ UsedSend
    \/ UsedStore
    \/ UsedCanPop
    \/ UsedPeek
    \/ PopUsed

SpecUsed == UsedInit /\ [][UsedNext]_vars

\* ---- used.idx publishes the used element
\* How far the one index is ahead of the other (mod 2^16).
Ahead(a, b) == (a - b + 65536) % 65536
\* The add_used calls whose stores have all reached shared memory.
UsedDone == Len(got) - (IF pend = <<>> THEN 0 ELSE 1)
\* The add_used calls the driver has not popped yet.
Unpopped ==
    {k \in 1 .. Len(got) :
        Ahead(got[k].n, vq.last_used_idx) \in 1 .. Ahead(shm.used.idx, vq.last_used_idx)}

\* Every entry between the driver's last_used_idx and used.idx belongs to a
\* finished add_used call and its ring slot holds the id and len of that
\* call; used.idx counts the finished calls; what can_pop and peek_used
\* answer is the oldest of these entries.
C15_State ==
    /\ Ahead(shm.used.idx, vq.last_used_idx) <= SIZE
    /\ Cardinality(Unpopped) = Ahead(shm.used.idx, vq.last_used_idx)
    /\ \A k \in Unpopped :
          /\ k <= UsedDone
          /\ shm.used.ring[(got[k].n + 65535) % SIZE] =
                [id |-> got[k].id, len |-> got[k].len]
    /\ UsedDone > 0 => shm.used.idx = got[UsedDone].n
    /\ can_pop(vq, shm) <=> Unpopped # {}
    /\ (last.op = "can_pop" /\ last.val = 1) => Unpopped # {}
    /\ (last.op = "peek_used" /\ last.val # -1) =>
          \E k \in Unpopped : got[k].id = last.val
    /\ can_pop(vq, shm) =>
          \E k \in Unpopped :
              /\ got[k].n = (vq.last_used_idx + 1) % 65536
              /\ peek_used(vq, shm) = got[k].id

\* A store to used.idx adds exactly one (mod 2^16) and is the last store of
\* its add_used, after the used element; a call of add_used makes exactly
\* one such store; a successful pop_used returns the len of the oldest entry
\* not yet popped.
C15_Step ==
    /\ shm'.used.idx # shm.used.idx =>
          /\ shm'.used.idx = (shm.used.idx + 1) % 65536
          /\ shm'.used.ring = shm.used.ring
          /\ pend' = <<>>
          /\ shm.used.ring[shm.used.idx % SIZE] =
                [id |-> got[Len(got)].id, len |-> got[Len(got)].len]
    /\ Len(got') # Len(got) =>
          /\ Cardinality({i \in 1 .. Len(pend') : pend'[i].t = "used_idx"}) = 1
          /\ pend'[Len(pend')] =
                Store("used_idx", 0, ZeroDesc, (shm.used.idx + 1) % 65536)
          /\ got'[Len(got')].n = (shm.used.idx + 1) % 65536
    /\ vq'.last_used_idx # vq.last_used_idx =>
          /\ last'.op = "pop_used" /\ last'.ret = "Ok"
          /\ \E k \in Unpopped :
                /\ got[k].n = vq'.last_used_idx
                /\ got[k].id = shm.used.ring[vq.last_used_idx % SIZE].id
                /\ last'.val = got[k].len

\* C15: in every interleaving of the device's add_used with the driver's
\* can_pop, peek_used and pop_used, once the driver observes used.idx = n it
\* reads from used.ring[(n - 1) mod SIZE] the id and len the device wrote:
\* add_used writes the ring element first and only then stores the
\* incremented last_used_idx into used.idx, which goes up by exactly one
\* (mod 2^16) per call.
C15_UsedPublish == [] C15_State /\ [][C15_Step]_vars

\* The driver has just popped the chain the device sent two bytes into, with
\* used.idx wrapped to 0, while the device is in the middle of the stores of
\* its next add_used: the id is written, the len and the index are not.
C15_Witness ==
    /\ last.op = "pop_used" /\ last.ret = "Ok" /\ last.val = 2
    /\ shm.used.idx = 0
    /\ Len(pend) = 2
    /\ Head(pend).t = "used_len"
    /\ Len(got) = 2

\* ------------------------------------------- the device's helper calls
\* The pair of queues without event_idx, so that the driver's
\* set_dev_notify takes effect; one add before the indices wrap. The driver
\* adds, turns notifications on and off and pops; the device calls poll and
\* wait_pop_add_notify on whatever chain comes next.
HelperInit ==
    /\ vq = Aged(new(FALSE, FALSE), U16 - 1)
    /\ shm = AgedShm(ShmInit, U16 - 1, FALSE)
    /\ hal = HalInit
    /\ chains = [h \in Slots |-> None]
    /\ last = Last("new", "Ok", 0)
    /\ adds = 0
    /\ pend = <<>>
    /\ dq = Aged(dev_new, U16 - 1)
    /\ got = None
    /\ twin = None
    /\ mgr = None

HelperNext ==
    \/ PairAdd
    \/ PairStore
    \/ PairPop
    \/ SetDevNotify
    \/ DevPoll
    \/ DevSend

SpecHelpers == HelperInit /\ [][HelperNext]_vars

\* ---- poll
\* The chain the device pops next: the one whose head is in the ring slot
\* at the device's avail_idx.
NextChain == chains[shm.avail.ring[dq.avail_idx % SIZE]]

Filled(reg, bytes) ==
    [reg EXCEPT !.data = [i \in 1 .. Len(reg.data) |->
                             IF i <= Len(bytes) THEN bytes[i] ELSE reg.data[i]]]
\* Whether the chain the device pops after the next one is there and has
\* write buffers only.
PureWriteFollows ==
    /\ (dq.avail_idx + 1) % 65536 # shm.avail.idx
    /\ LET c == chains[shm.avail.ring[(dq.avail_idx + 1) % SIZE]]
       IN  c.inputs = <<>> /\ c.outputs # <<>>

LocalCid == 66
MgrCapacity == 2
VsockAddr(cid, port) == [cid |-> cid, port |-> port]
Peers == {VsockAddr(2, 1234)}
Ports == {1, 2}
Min(a, b) == IF a < b THEN a ELSE b

\* RingBuffer::new
RingBuffer_new(capacity) == [buffer |-> Zeros(capacity), used |-> 0, start |-> 0]
\* An is_empty that says yes of every buffer.
is_empty_always(rb) == TRUE
\* RingBuffer::is_empty
is_empty(rb) == rb.used = 0
\* RingBuffer::free
free(rb) == Len(rb.buffer) - rb.used
\* An add that copies what fits of bytes it has no room for.
RingBuffer_add_truncating(rb, bytes) ==
    LET fits == SubSeq(bytes, 1, Min(Len(bytes), Len(rb.buffer) - rb.used))
        first_available == (rb.start + rb.used) % Len(rb.buffer)
    IN  [ok |-> Len(bytes) <= Len(rb.buffer) - rb.used,
         rb |-> [rb EXCEPT
             !.buffer = [k \in 1 .. Len(rb.buffer) |->
                 LET p == (k - 1 - first_available) % Len(rb.buffer)
                 IN  IF p < Len(fits) THEN fits[p + 1] ELSE rb.buffer[k]],
             !.used = @ + Len(fits)]]

\* RingBuffer::add: all of the bytes or none, in two copies when they cross
\* the end of the buffer.
RingBuffer_add(rb, bytes) ==
    IF Len(bytes) > free(rb) THEN [ok |-> FALSE, rb |-> rb]
    ELSE LET first_available == (rb.start + rb.used) % Len(rb.buffer)
             copy_length_before_wraparound ==
                 Min(Len(bytes), Len(rb.buffer) - first_available)
         IN  [ok |-> TRUE,
              rb |-> [rb EXCEPT
                  !.buffer = [k \in 1 .. Len(rb.buffer) |->
                      IF /\ k - 1 >= first_available
                         /\ k - 1 < first_available + copy_length_before_wraparound
                      THEN bytes[k - first_available]
                      ELSE IF k <= Len(bytes) - copy_length_before_wraparound
                      THEN bytes[copy_length_before_wraparound + k]
                      ELSE rb.buffer[k]],
                  !.used = @ + Len(bytes)]]

\* ConnectionInfo::new and Connection::new
ConnectionInfo(peer, local_port) ==
    [dst |-> peer, src_port |-> local_port, buf_alloc |-> 0, fwd_cnt |-> 0,
     peer_buf_alloc |-> 0, peer_fwd_cnt |-> 0]
Connection(peer, local_port, buffer_capacity) ==
    [info |-> [ConnectionInfo(peer, local_port) EXCEPT !.buf_alloc = buffer_capacity],
     buffer |-> RingBuffer_new(buffer_capacity),
     peer_requested_shutdown |-> FALSE]

\* ConnectionInfo::update_for_event: the peer's credit as the event gives it.
update_for_event(info, event) ==
    [info EXCEPT !.peer_buf_alloc = event.buffer_status.buffer_allocation,
                 !.peer_fwd_cnt = event.buffer_status.forward_count]

\* VsockEvent::matches_connection: the peer and the local port are those of
\* the connection, and the event is addressed to our cid.
matches_connection(event, info, local_cid) ==
    /\ event.source = info.dst
    /\ event.destination.cid = local_cid
    /\ event.destination.port = info.src_port

\* The packet the lower layer transmits for a connection.
Packet(op, info) ==
    [op |-> op, dst |-> info.dst, src_port |-> info.src_port,
     buf_alloc |-> info.buf_alloc, fwd_cnt |-> info.fwd_cnt]

\* VsockConnectionManager::new_with_capacity. `heard` is the set of ports
\* passed to listen and not passed to unlisten since.
new_with_capacity(per_connection_buffer_capacity) ==
    [connections |-> <<>>,
     listening_ports |-> <<>>,
     per_connection_buffer_capacity |-> per_connection_buffer_capacity,
     sent |-> <<>>,
     heard |-> {}]

\* Vec::swap_remove
swap_remove(s, index) ==
    IF index = Len(s) THEN SubSeq(s, 1, Len(s) - 1)
    ELSE [SubSeq(s, 1, Len(s) - 1) EXCEPT ![index] = s[Len(s)]]

\* get_connection and get_connection_for_event: the index of the first
\* connection that matches, 0 for none.
FirstIndex(S) == IF S = {} THEN 0 ELSE CHOOSE i \in S : \A j \in S : i <= j
\* A get_connection that looks at the port only.
get_connection_any_peer(connections, peer, local_port) ==
    FirstIndex({i \in 1 .. Len(connections) :
                   connections[i].info.src_port = local_port})
\* get_connection
get_connection(connections, peer, local_port) ==
    FirstIndex({i \in 1 .. Len(connections) :
                   /\ connections[i].info.dst = peer
                   /\ connections[i].info.src_port = local_port})
\* A get_connection_for_event that takes events addressed to any cid.
get_connection_for_event_any_cid(connections, event, local_cid) ==
    FirstIndex({i \in 1 .. Len(connections) :
                   /\ event.source = connections[i].info.dst
                   /\ event.destination.port = connections[i].info.src_port})
\* get_connection_for_event
get_connection_for_event(connections, event, local_cid) ==
    FirstIndex({i \in 1 .. Len(connections) :
                   matches_connection(event, connections[i].info, local_cid)})

\* VsockConnectionManagerCommon::listen
vsock_listen(m, port) ==
    [m EXCEPT !.listening_ports = IF port \in Range(@) THEN @ ELSE Append(@, port),
              !.sent = <<>>]

\* An unlisten that leaves the port in the list.
vsock_unlisten_keep(m, port) ==
    [m EXCEPT !.sent = <<>>]

\* VsockConnectionManagerCommon::unlisten
vsock_unlisten(m, port) ==
    [m EXCEPT !.listening_ports = SelectSeq(@, LAMBDA p : p # port),
              !.sent = <<>>]

\* A connect that does not look for the connection in the list.
vsock_connect_again(m, destination, src_port, transmitted) ==
    LET new_connection ==
            Connection(destination, src_port, m.per_connection_buffer_capacity)
    IN  IF ~transmitted
        THEN [ret |-> "Err", m |-> [m EXCEPT !.sent = <<>>]]
        ELSE [ret |-> "Ok",
              m |-> [m EXCEPT !.connections = Append(@, new_connection),
                              !.sent = <<Packet("Request", new_connection.info)>>]]

\* A connect that appends the connection before asking the lower layer.
vsock_connect_eager(m, destination, src_port, transmitted) ==
    LET new_connection ==
            Connection(destination, src_port, m.per_connection_buffer_capacity)
    IN  IF get_connection(m.connections, destination, src_port) # 0
        THEN [ret |-> "ConnectionExists", m |-> [m EXCEPT !.sent = <<>>]]
        ELSE [ret |-> IF transmitted THEN "Ok" ELSE "Err",
              m |-> [m EXCEPT !.connections = Append(@, new_connection),
                              !.sent = IF transmitted
                                       THEN <<Packet("Request", new_connection.info)>>
                                       ELSE <<>>]]

\* VsockConnectionManager::connect; `transmitted` is whether the lower
\* layer's connect succeeds in transmitting the request.
vsock_connect(m, destination, src_port, transmitted) ==
    IF get_connection(m.connections, destination, src_port) # 0
    THEN [ret |-> "ConnectionExists", m |-> [m EXCEPT !.sent = <<>>]]
    ELSE LET new_connection ==
                 Connection(destination, src_port, m.per_connection_buffer_capacity)
         IN  IF ~transmitted
             THEN [ret |-> "Err", m |-> [m EXCEPT !.sent = <<>>]]
             ELSE [ret |-> "Ok",
                   m |-> [m EXCEPT !.connections = Append(@, new_connection),
                                   !.sent = <<Packet("Request", new_connection.info)>>]]

\* VsockConnectionManagerCommon::poll, the callback it passes to the lower
\* layer's poll: the connection of the event is looked up, or made for a
\* connection request, its info updated, and received bytes are put into
\* its buffer.
PollResult(ret, m) == [ret |-> ret, m |-> m]
poll_callback(m, event, body) ==
    LET found == get_connection_for_event(m.connections, event, LocalCid)
        fresh == found = 0 /\ event.event_type = "ConnectionRequest"
        connections == IF fresh
                       THEN Append(m.connections,
                                   Connection(event.source, event.destination.port,
                                              m.per_connection_buffer_capacity))
                       ELSE m.connections
        index == IF fresh THEN Len(connections) ELSE found
    IN  IF found = 0 /\ event.event_type # "ConnectionRequest"
        THEN PollResult("None", m)
        ELSE IF found = 0 /\ event.destination.cid # LocalCid
        THEN PollResult("None", m)
        ELSE LET updated == [connections EXCEPT
                                ![index].info = update_for_event(@, event)]
                 added == RingBuffer_add(updated[index].buffer, body)
             IN  IF event.event_type = "Received"
                 THEN PollResult(IF added.ok THEN "Some" ELSE "OutputBufferTooShort",
                          [m EXCEPT !.connections =
                              [updated EXCEPT ![index].buffer = added.rb]])
                 ELSE PollResult("Some", [m EXCEPT !.connections = updated])

\* A poll that hands the peer's credit request on to the caller.
vsock_poll_surfacing(m0, event) ==
    LET m == [m0 EXCEPT !.sent = <<>>]
        result == poll_callback(m, event, event.body)
        m1 == result.m
        connection_index == get_connection_for_event(m1.connections, event, LocalCid)
        connection == m1.connections[connection_index]
    IN  IF event.event_type = "None" THEN PollResult("None", m)
        ELSE IF result.ret # "Some" THEN PollResult(result.ret, m1)
        ELSE IF event.event_type = "ConnectionRequest"
        THEN IF event.destination.port \in Range(m1.listening_ports)
             THEN PollResult("Some",
                      [m1 EXCEPT !.sent = <<Packet("Response", connection.info)>>])
             ELSE PollResult("None",
                      [m1 EXCEPT !.sent = <<Packet("Rst", connection.info)>>,
                                 !.connections = swap_remove(@, connection_index)])
        ELSE IF event.event_type \in {"DisconnectedReset", "DisconnectedShutdown"}
        THEN IF is_empty(connection.buffer)
             THEN PollResult("Some",
                      [m1 EXCEPT !.sent = IF event.event_type = "DisconnectedShutdown"
                                          THEN <<Packet("Rst", connection.info)>>
                                          ELSE <<>>,
                                 !.connections = swap_remove(@, connection_index)])
             ELSE PollResult("Some",
                      [m1 EXCEPT !.connections[connection_index]
                                      .peer_requested_shutdown = TRUE])
        ELSE IF event.event_type = "CreditRequest"
        THEN PollResult("Some",
                 [m1 EXCEPT !.sent = <<Packet("CreditUpdate", connection.info)>>])
        ELSE PollResult("Some", m1)

\* VsockConnectionManagerCommon::poll, for the event the lower layer has
\* ("None" when it has none).
vsock_poll(m0, event) ==
    LET m == [m0 EXCEPT !.sent = <<>>]
        result == poll_callback(m, event, event.body)
        m1 == result.m
        connection_index == get_connection_for_event(m1.connections, event, LocalCid)
        connection == m1.connections[connection_index]
    IN  IF event.event_type = "None" THEN PollResult("None", m)
        ELSE IF result.ret # "Some" THEN PollResult(result.ret, m1)
        ELSE IF event.event_type = "ConnectionRequest"
        THEN IF event.destination.port \in Range(m1.listening_ports)
             THEN PollResult("Some",
                      [m1 EXCEPT !.sent = <<Packet("Response", connection.info)>>])
             ELSE PollResult("None",
                      [m1 EXCEPT !.sent = <<Packet("Rst", connection.info)>>,
                                 !.connections = swap_remove(@, connection_index)])
        ELSE IF event.event_type \in {"DisconnectedReset", "DisconnectedShutdown"}
        THEN IF is_empty(connection.buffer)
             THEN PollResult("Some",
                      [m1 EXCEPT !.sent = IF event.event_type = "DisconnectedShutdown"
                                          THEN <<Packet("Rst", connection.info)>>
                                          ELSE <<>>,
                                 !.connections = swap_remove(@, connection_index)])
             ELSE PollResult("Some",
                      [m1 EXCEPT !.connections[connection_index]
                                      .peer_requested_shutdown = TRUE])
        ELSE IF event.event_type = "CreditRequest"
        THEN PollResult("None",
                 [m1 EXCEPT !.sent = <<Packet("CreditUpdate", connection.info)>>])
        ELSE PollResult("Some", m1)

\* The events the lower layer hands over: from the peer, to our cid or to
\* another, to either port, of every type; a received body that fits the
\* buffer and one that does not.
VsockEvent(source, destination, event_type, body) ==
    [source |-> source, destination |-> destination, event_type |-> event_type,
     buffer_status |-> [buffer_allocation |-> 50, forward_count |-> 0],
     body |-> body]
EventTypes ==
    {"ConnectionRequest", "Connected", "DisconnectedReset", "DisconnectedShutdown",
     "CreditRequest", "CreditUpdate"}
Events ==
    {VsockEvent(s, VsockAddr(c, p), t, <<>>) :
        s \in Peers, c \in {LocalCid, LocalCid + 1}, p \in Ports, t \in EventTypes}
    \cup {VsockEvent(s, VsockAddr(LocalCid, p), "Received", b) :
            s \in Peers, p \in Ports, b \in {<<5>>, Zeros(MgrCapacity + 1)}}
NoEvent == VsockEvent(VsockAddr(0, 0), VsockAddr(0, 0), "None", <<>>)

ManagerInit ==
    /\ vq = new(FALSE, FALSE)
    /\ shm = ShmInit
    /\ hal = HalInit
    /\ chains = [h \in Slots |-> None]
    /\ last = Last("new", "Ok", 0)
    /\ adds = 0
    /\ pend = <<>>
    /\ dq = None
    /\ got = None
    /\ twin = None
    /\ mgr = new_with_capacity(MgrCapacity)

\* The caller calls listen.
MgrListen ==
    \E port \in Ports :
        /\ mgr' = [vsock_listen(mgr, port) EXCEPT !.heard = @ \cup {port}]
        /\ last' = Last("listen", "Ok", port)
        /\ got' = None
        /\ UNCHANGED <<vq, shm, hal, chains, adds, pend, dq, twin>>

\* The caller calls unlisten.
MgrUnlisten ==
    \E port \in Ports :
        /\ mgr' = [vsock_unlisten(mgr, port) EXCEPT !.heard = @ \ {port}]
        /\ last' = Last("unlisten", "Ok", port)
        /\ got' = None
        /\ UNCHANGED <<vq, shm, hal, chains, adds, pend, dq, twin>>

\* The caller calls connect.
MgrConnect ==
    \E destination \in Peers, src_port \in Ports, transmitted \in BOOLEAN :
        LET r == vsock_connect(mgr, destination, src_port, transmitted)
        IN  /\ mgr' = r.m
            /\ last' = Last("connect", r.ret, src_port)
            /\ got' = None
            /\ UNCHANGED <<vq, shm, hal, chains, adds, pend, dq, twin>>

\* The caller calls poll; `got` keeps the event the lower layer had.
MgrPoll ==
    \E event \in Events \cup {NoEvent} :
        LET r == vsock_poll(mgr, event)
        IN  /\ mgr' = r.m
            /\ last' = Last("poll", r.ret, Len(mgr.connections))
            /\ got' = event
            /\ UNCHANGED <<vq, shm, hal, chains, adds, pend, dq, twin>>

ManagerNext == MgrListen \/ MgrUnlisten \/ MgrConnect \/ MgrPoll

SpecManager == ManagerInit /\ [][ManagerNext]_vars

\* ------------------------------------------------- incoming requests
\* The connection requests addressed to our cid.
Requests ==
    {event \in Events : /\ event.event_type = "ConnectionRequest"
                        /\ event.destination.cid = LocalCid}
\* The last call transmitted exactly one packet, of this kind, to the
\* sender of the event from the port the event was for.
SentTo(m, op, event) ==
    /\ Len(m.sent) = 1
    /\ m.sent[1].op = op
    /\ m.sent[1].dst = event.source
    /\ m.sent[1].src_port = event.destination.port

\* C18: whenever poll processes a connection request for a port that is not
\* in listening_ports, it transmits a RST to the requester, returns None,
\* and the connection list after poll is the list before it.
C18_Reject ==
    mgr # None =>
        \A event \in Requests :
            event.destination.port \notin Range(mgr.listening_ports) =>
                LET r == vsock_poll(mgr, event)
                IN  /\ r.ret = "None"
                    /\ SentTo(r.m, "Rst", event)
                    /\ r.m.connections = mgr.connections

C20_Duplicate ==
    mgr # None =>
        \A event \in Requests :
            get_connection(mgr.connections, event.source, event.destination.port) # 0 =>
                LET r == vsock_poll(mgr, event)
                IN  /\ r.ret = "None"
                    /\ r.m.sent = <<>>
                    /\ r.m.connections = mgr.connections

\* ------------------------------------------------------------ RingBuffer
\* A RingBuffer on its own: `got` holds the buffer with the bytes passed to
\* its successful adds and the bytes its drains returned, in order.
MaxRingCapacity == 3
MaxRingBytes == 6

\* A drain that reads on past the end of the array instead of wrapping.
RingBuffer_drain_flat(rb, out_len) ==
    LET bytes_read == Min(rb.used, out_len)
    IN  [out |-> [k \in 1 .. bytes_read |->
                     IF rb.start + k <= Len(rb.buffer)
                     THEN rb.buffer[rb.start + k] ELSE 0],
         rb |-> [rb EXCEPT !.used = @ - bytes_read,
                           !.start = (@ + bytes_read) % Len(rb.buffer)]]

\* RingBuffer::drain into an `out` of out_len bytes: `out` is what is
\* written to the front of it, bytes_read bytes.
RingBuffer_drain(rb, out_len) ==
    LET bytes_read == Min(rb.used, out_len)
        read_before_wraparound == Min(bytes_read, Len(rb.buffer) - rb.start)
        read_after_wraparound == IF bytes_read >= read_before_wraparound
                                 THEN bytes_read - read_before_wraparound ELSE 0
    IN  [out |-> SubSeq(rb.buffer, rb.start + 1, rb.start + read_before_wraparound)
                     \o SubSeq(rb.buffer, 1, read_after_wraparound),
         rb |-> [rb EXCEPT !.used = @ - bytes_read,
                           !.start = (@ + bytes_read) % Len(rb.buffer)]]

\* The n bytes that follow the bytes already added: each byte is its
\* position in the stream.
NextBytes(added, n) == [k \in 1 .. n |-> Len(added) + k]

RingInit ==
    /\ vq = new(FALSE, FALSE)
    /\ shm = ShmInit
    /\ hal = HalInit
    /\ chains = [h \in Slots |-> None]
    /\ last = Last("new", "Ok", 0)
    /\ adds = 0
    /\ pend = <<>>
    /\ dq = None
    /\ \E capacity \in 1 .. MaxRingCapacity :
           got = [rb |-> RingBuffer_new(capacity), added |-> <<>>, drained |-> <<>>]
    /\ twin = None
    /\ mgr = None

\* RingBuffer::add is called with n bytes.
RingAdd ==
    \E n \in 0 .. Len(got.rb.buffer) + 1 :
        LET bytes == NextBytes(got.added, n)
            r == RingBuffer_add(got.rb, bytes)
        IN  /\ Len(got.added) + n <= MaxRingBytes
            /\ got' = [rb |-> r.rb,
                       added |-> IF r.ok THEN got.added \o bytes ELSE got.added,
                       drained |-> got.drained]
            /\ last' = Last("add", IF r.ok THEN "true" ELSE "false", n)
            /\ UNCHANGED <<vq, shm, hal, chains, adds, pend, dq, twin, mgr>>

\* RingBuffer::drain is called with an `out` of n bytes.
RingDrain ==
    \E n \in 0 .. Len(got.rb.buffer) + 1 :
        LET r == RingBuffer_drain(got.rb, n)
        IN  /\ got' = [rb |-> r.rb,
                       added |-> got.added,
                       drained |-> got.drained \o r.out]
            /\ last' = Last("drain", "Ok", Len(r.out))
            /\ UNCHANGED <<vq, shm, hal, chains, adds, pend, dq, twin, mgr>>

RingNext == RingAdd \/ RingDrain

SpecRing == RingInit /\ [][RingNext]_vars

\* C29: after any adds and drains, what the drains returned is a prefix of
\* what the successful adds were given, in order, and the bytes not yet
\* drained number used; also when an add or a drain crosses the end of
\* the array.
C29_Fifo ==
    got # None =>
        /\ Len(got.drained) <= Len(got.added)
        /\ got.drained = SubSeq(got.added, 1, Len(got.drained))
        /\ Len(got.added) - Len(got.drained) = got.rb.used

\* A drain of two bytes or more has just read across the end of the array,
\* after more bytes went through the buffer than it holds.
C29_Witness ==
    /\ got # None
    /\ last.op = "drain"
    /\ last.val >= 2
    /\ got.rb.start > 0
    /\ got.rb.start < last.val
    /\ Len(got.drained) > Len(got.rb.buffer)

\* C30: in every reachable state of a RingBuffer, 0 <= used <= capacity and
\* 0 <= start < capacity; add succeeds exactly when the bytes number at
\* most capacity - used, and a refused add changes neither used, start nor
\* a stored byte; drain removes exactly min(used, out.len()) bytes.
C30_Bounds ==
    got # None =>
        LET rb == got.rb
            capacity == Len(rb.buffer)
        IN  /\ 0 <= rb.used /\ rb.used <= capacity
            /\ 0 <= rb.start /\ rb.start < capacity
            /\ \A n \in 0 .. capacity + 1 :
                   LET a == RingBuffer_add(rb, NextBytes(got.added, n))
                       d == RingBuffer_drain(rb, n)
                   IN  /\ a.ok <=> n <= capacity - rb.used
                       /\ a.ok => a.rb.used = rb.used + n
                       /\ ~a.ok => a.rb = rb
                       /\ Len(d.out) = Min(rb.used, n)
                       /\ d.rb.used = rb.used - Min(rb.used, n)

\* An add has just been refused by a buffer that holds bytes, starts away
\* from the front of its array and still has room for a shorter add.
C30_Witness ==
    /\ got # None
    /\ last.op = "add"
    /\ last.ret = "false"
    /\ got.rb.start > 0
    /\ got.rb.used > 0
    /\ got.rb.used < Len(got.rb.buffer)

\* --------------------------------------- the manager's other operations
\* ConnectionInfo::done_forwarding
done_forwarding(info, length) == [info EXCEPT !.fwd_cnt = @ + length]

\* What an operation of the manager returns: its result, the value or the
\* bytes it yields, and the manager after it.
OpResult(ret, val, m) == [ret |-> ret, val |-> val, m |-> m]

\* VsockConnectionManagerCommon::send
vsock_send(m0, destination, src_port, buffer) ==
    LET m == [m0 EXCEPT !.sent = <<>>]
        index == get_connection(m.connections, destination, src_port)
    IN  IF index = 0 THEN OpResult("NotConnected", <<>>, m)
        ELSE OpResult("Ok", <<>>,
                 [m EXCEPT !.sent = <<Packet("Rw", m.connections[index].info)>>])

\* A recv that does not count the bytes it hands over.
vsock_recv_uncounted(m0, peer, src_port, out_len) ==
    LET m == [m0 EXCEPT !.sent = <<>>]
        connection_index == get_connection(m.connections, peer, src_port)
        connection == m.connections[connection_index]
        drained == RingBuffer_drain(connection.buffer, out_len)
        m1 == [m EXCEPT !.connections[connection_index].buffer = drained.rb]
    IN  IF connection_index = 0 THEN OpResult("NotConnected", <<>>, m)
        ELSE IF connection.peer_requested_shutdown /\ is_empty(drained.rb)
        THEN OpResult("Ok", drained.out,
                 [m1 EXCEPT !.sent = <<Packet("Rst", connection.info)>>,
                            !.connections = swap_remove(@, connection_index)])
        ELSE OpResult("Ok", drained.out, m1)

\* A recv that finishes the shutdown whenever the peer asked for it.
vsock_recv_hasty(m0, peer, src_port, out_len) ==
    LET m == [m0 EXCEPT !.sent = <<>>]
        connection_index == get_connection(m.connections, peer, src_port)
        connection == m.connections[connection_index]
        drained == RingBuffer_drain(connection.buffer, out_len)
        info == done_forwarding(connection.info, Len(drained.out))
        m1 == [m EXCEPT !.connections[connection_index].buffer = drained.rb,
                        !.connections[connection_index].info = info]
    IN  IF connection_index = 0 THEN OpResult("NotConnected", <<>>, m)
        ELSE IF connection.peer_requested_shutdown
        THEN OpResult("Ok", drained.out,
                 [m1 EXCEPT !.sent = <<Packet("Rst", info)>>,
                            !.connections = swap_remove(@, connection_index)])
        ELSE OpResult("Ok", drained.out, m1)

\* VsockConnectionManagerCommon::recv into a buffer of out_len bytes.
vsock_recv(m0, peer, src_port, out_len) ==
    LET m == [m0 EXCEPT !.sent = <<>>]
        connection_index == get_connection(m.connections, peer, src_port)
        connection == m.connections[connection_index]
        drained == RingBuffer_drain(connection.buffer, out_len)
        info == done_forwarding(connection.info, Len(drained.out))
        m1 == [m EXCEPT !.connections[connection_index].buffer = drained.rb,
                        !.connections[connection_index].info = info]
    IN  IF connection_index = 0 THEN OpResult("NotConnected", <<>>, m)
        ELSE IF connection.peer_requested_shutdown /\ is_empty(drained.rb)
        THEN OpResult("Ok", drained.out,
                 [m1 EXCEPT !.sent = <<Packet("Rst", info)>>,
                            !.connections = swap_remove(@, connection_index)])
        ELSE OpResult("Ok", drained.out, m1)

\* VsockConnectionManagerCommon::recv_buffer_available_bytes
recv_buffer_available_bytes(m0, peer, src_port) ==
    LET m == [m0 EXCEPT !.sent = <<>>]
        index == get_connection(m.connections, peer, src_port)
    IN  IF index = 0 THEN OpResult("NotConnected", 0, m)
        ELSE OpResult("Ok", m.connections[index].buffer.used, m)

\* VsockConnectionManagerCommon::update_credit
vsock_update_credit(m0, peer, src_port) ==
    LET m == [m0 EXCEPT !.sent = <<>>]
        index == get_connection(m.connections, peer, src_port)
    IN  IF index = 0 THEN OpResult("NotConnected", 0, m)
        ELSE OpResult("Ok", 0,
                 [m EXCEPT !.sent = <<Packet("CreditUpdate", m.connections[index].info)>>])

\* VsockConnectionManagerCommon::shutdown
vsock_shutdown(m0, destination, src_port) ==
    LET m == [m0 EXCEPT !.sent = <<>>]
        index == get_connection(m.connections, destination, src_port)
    IN  IF index = 0 THEN OpResult("NotConnected", 0, m)
        ELSE OpResult("Ok", 0,
                 [m EXCEPT !.sent = <<Packet("Shutdown", m.connections[index].info)>>])

\* A force_close that leaves the connection in the list.
vsock_force_close_keep(m0, destination, src_port) ==
    LET m == [m0 EXCEPT !.sent = <<>>]
        index == get_connection(m.connections, destination, src_port)
    IN  IF index = 0 THEN OpResult("NotConnected", 0, m)
        ELSE OpResult("Ok", 0,
                 [m EXCEPT !.sent = <<Packet("Rst", m.connections[index].info)>>])

\* VsockConnectionManagerCommon::force_close
vsock_force_close(m0, destination, src_port) ==
    LET m == [m0 EXCEPT !.sent = <<>>]
        index == get_connection(m.connections, destination, src_port)
    IN  IF index = 0 THEN OpResult("NotConnected", 0, m)
        ELSE OpResult("Ok", 0,
                 [m EXCEPT !.sent = <<Packet("Rst", m.connections[index].info)>>,
                           !.connections = swap_remove(@, index)])

\* ------------------------------------------------- data on connections
\* The manager with connections that carry data: the caller connects,
\* sends, receives, asks for credit, shuts down and closes, and the lower
\* layer hands over the events of the peer. The bytes the peer sends on a
\* connection are numbered by their position in the connection's stream.
MaxStreamBytes == 3

\* The bytes a RingBuffer holds, oldest first.
Content(rb) ==
    [k \in 1 .. rb.used |-> rb.buffer[((rb.start + k - 1) % Len(rb.buffer)) + 1]]

\* The number of bytes the manager has taken in on the connection (peer,
\* local_port) so far, 0 if it has no such connection.
TakenIn(m, peer, local_port) ==
    LET index == get_connection(m.connections, peer, local_port)
    IN  IF index = 0 THEN 0
        ELSE m.connections[index].info.fwd_cnt + m.connections[index].buffer.used

\* The events of the peer addressed to us on connections that may carry
\* data: every event other than a connection request, the received ones
\* with the next 1 to capacity + 1 bytes of the stream.
StreamEvents(m) ==
    {event \in Events : /\ event.destination.cid = LocalCid
                        /\ event.event_type \notin {"ConnectionRequest", "Received"}}
    \cup {VsockEvent(s, VsockAddr(LocalCid, p), "Received",
                     [k \in 1 .. n |-> TakenIn(m, s, p) + k]) :
            s \in Peers, p \in Ports, n \in 1 .. m.per_connection_buffer_capacity + 1}

\* The manager as constructed, after a first listen.
StreamInit ==
    /\ vq = new(FALSE, FALSE)
    /\ shm = ShmInit
    /\ hal = HalInit
    /\ chains = [h \in Slots |-> None]
    /\ last = Last("listen", "Ok", 2)
    /\ adds = 0
    /\ pend = <<>>
    /\ dq = None
    /\ got = None
    /\ twin = None
    /\ mgr = [vsock_listen(new_with_capacity(MgrCapacity), 2) EXCEPT !.heard = {2}]

\* The caller calls poll and the lower layer has an event of the stream.
StreamPoll ==
    \E event \in StreamEvents(mgr) :
        LET r == vsock_poll(mgr, event)
        IN  /\ TakenIn(r.m, event.source, event.destination.port) <= MaxStreamBytes
            /\ mgr' = r.m
            /\ last' = Last("poll", r.ret, Len(mgr.connections))
            /\ got' = event
            /\ UNCHANGED <<vq, shm, hal, chains, adds, pend, dq, twin>>

\* The caller calls send.
MgrSend ==
    \E peer \in Peers, src_port \in Ports :
        LET r == vsock_send(mgr, peer, src_port, <<1>>)
        IN  /\ mgr' = r.m
            /\ last' = Last("send", r.ret, src_port)
            /\ got' = None
            /\ UNCHANGED <<vq, shm, hal, chains, adds, pend, dq, twin>>

\* The caller calls recv with a buffer of out_len bytes; `got` keeps the
\* bytes it was given.
MgrRecv ==
    \E peer \in Peers, src_port \in Ports, out_len \in 0 .. MgrCapacity :
        LET r == vsock_recv(mgr, peer, src_port, out_len)
        IN  /\ mgr' = r.m
            /\ last' = Last("recv", r.ret, src_port)
            /\ got' = [out |-> r.val, peer |-> peer]
            /\ UNCHANGED <<vq, shm, hal, chains, adds, pend, dq, twin>>

\* The caller calls recv_buffer_available_bytes.
MgrAvailable ==
    \E peer \in Peers, src_port \in Ports :
        LET r == recv_buffer_available_bytes(mgr, peer, src_port)
        IN  /\ mgr' = r.m
            /\ last' = Last("recv_buffer_available_bytes", r.ret, r.val)
            /\ got' = None
            /\ UNCHANGED <<vq, shm, hal, chains, adds, pend, dq, twin>>

\* The caller calls update_credit.
MgrUpdateCredit ==
    \E peer \in Peers, src_port \in Ports :
        LET r == vsock_update_credit(mgr, peer, src_port)
        IN  /\ mgr' = r.m
            /\ last' = Last("update_credit", r.ret, src_port)
            /\ got' = None
            /\ UNCHANGED <<vq, shm, hal, chains, adds, pend, dq, twin>>

\* The caller calls shutdown.
MgrShutdown ==
    \E peer \in Peers, src_port \in Ports :
        LET r == vsock_shutdown(mgr, peer, src_port)
        IN  /\ mgr' = r.m
            /\ last' = Last("shutdown", r.ret, src_port)
            /\ got' = None
            /\ UNCHANGED <<vq, shm, hal, chains, adds, pend, dq, twin>>

\* The caller calls force_close; `got` keeps the connection as it was when
\* there was one to close.
MgrForceClose ==
    \E peer \in Peers, src_port \in Ports :
        LET r == vsock_force_close(mgr, peer, src_port)
            index == get_connection(mgr.connections, peer, src_port)
        IN  /\ mgr' = r.m
            /\ last' = Last("force_close", r.ret, src_port)
            /\ got' = IF index = 0 THEN None ELSE [closed |-> mgr.connections[index]]
            /\ UNCHANGED <<vq, shm, hal, chains, adds, pend, dq, twin>>

StreamNext ==
    \/ MgrConnect
    \/ StreamPoll
    \/ MgrSend
    \/ MgrRecv
    \/ MgrAvailable
    \/ MgrUpdateCredit
    \/ MgrShutdown
    \/ MgrForceClose

SpecStream == StreamInit /\ [][StreamNext]_vars

\* The connection lists of two managers hold the same connections in the
\* same state, but for the connection (peer, local_port).
OthersKept(m1, m2, peer, local_port) ==
    LET other(c) == ~(c.info.dst = peer /\ c.info.src_port = local_port)
    IN  Range(SelectSeq(m1.connections, other)) = Range(SelectSeq(m2.connections, other))
\* The connection (peer, local_port) of a manager that has it.
ConnectionOf(m, peer, local_port) ==
    m.connections[get_connection(m.connections, peer, local_port)]
Tracked(m, peer, local_port) == get_connection(m.connections, peer, local_port) # 0

SentFor(m, op, peer, local_port) ==
    /\ Len(m.sent) = 1
    /\ m.sent[1].op = op
    /\ m.sent[1].dst = peer
    /\ m.sent[1].src_port = local_port

\* C22, in each state: a recv on a connection returns the oldest bytes of
\* its buffer in order; with peer_requested_shutdown set (and then there
\* are bytes still to deliver), the recv that leaves the buffer empty
\* transmits a RST and removes the connection, and one that leaves bytes
\* keeps it, its flag and the rest of its bytes and transmits nothing; a
\* recv on a connection without the flag never removes it.
C22_State ==
    \A peer \in Peers, p \in Ports, n \in 0 .. MgrCapacity + 1 :
        Tracked(mgr, peer, p) =>
            LET c == ConnectionOf(mgr, peer, p)
                r == vsock_recv(mgr, peer, p, n)
                taken == Min(c.buffer.used, n)
            IN  /\ r.ret = "Ok"
                /\ r.val = SubSeq(Content(c.buffer), 1, taken)
                /\ OthersKept(mgr, r.m, peer, p)
                /\ c.peer_requested_shutdown => c.buffer.used > 0
                /\ IF c.peer_requested_shutdown /\ n >= c.buffer.used
                   THEN /\ SentFor(r.m, "Rst", peer, p)
                        /\ ~Tracked(r.m, peer, p)
                   ELSE /\ r.m.sent = <<>>
                        /\ Tracked(r.m, peer, p)
                        /\ ConnectionOf(r.m, peer, p).peer_requested_shutdown
                               = c.peer_requested_shutdown
                        /\ Content(ConnectionOf(r.m, peer, p).buffer)
                               = SubSeq(Content(c.buffer), taken + 1, c.buffer.used)

\* C22, in each step: the bytes of a connection with peer_requested_shutdown
\* set leave its buffer only through recv, oldest first, and the
\* connection leaves the list only in the recv that returns the last of
\* them, or when the caller closes it by force.
C22_Step ==
    \A peer \in Peers, p \in Ports :
        (Tracked(mgr, peer, p) /\ ConnectionOf(mgr, peer, p).peer_requested_shutdown) =>
            LET c == ConnectionOf(mgr, peer, p)
                d == ConnectionOf(mgr', peer, p)
                k == d.info.fwd_cnt - c.info.fwd_cnt
            IN  IF Tracked(mgr', peer, p)
                THEN /\ d.peer_requested_shutdown
                     /\ k >= 0 /\ k < c.buffer.used
                     /\ SubSeq(Content(d.buffer), 1, c.buffer.used - k)
                            = SubSeq(Content(c.buffer), k + 1, c.buffer.used)
                     /\ k > 0 => /\ last'.op = "recv"
                                 /\ got'.out = SubSeq(Content(c.buffer), 1, k)
                ELSE \/ /\ last'.op = "recv"
                        /\ got'.out = Content(c.buffer)
                        /\ SentFor(mgr', "Rst", peer, p)
                     \/ last'.op = "force_close"

C23_Overflow ==
    \A event \in StreamEvents(mgr) :
        LET peer == event.source
            p == event.destination.port
            c == ConnectionOf(mgr, peer, p)
            r == vsock_poll(mgr, event)
            d == ConnectionOf(r.m, peer, p)
        IN  (/\ event.event_type = "Received"
             /\ Tracked(mgr, peer, p)
             /\ Len(event.body) > Len(c.buffer.buffer) - c.buffer.used) =>
                /\ r.ret = "OutputBufferTooShort"
                /\ r.m.sent = <<>>
                /\ Len(r.m.connections) = Len(mgr.connections)
                /\ OthersKept(mgr, r.m, peer, p)
                /\ Tracked(r.m, peer, p)
                /\ d.buffer = c.buffer
                /\ d.peer_requested_shutdown = c.peer_requested_shutdown
                /\ vsock_recv(r.m, peer, p, c.buffer.used).val = Content(c.buffer)

\* A poll has just refused two bytes for a connection whose buffer holds one
\* byte, away from the front of its array.
C23_Witness ==
    /\ last.op = "poll"
    /\ last.ret = "OutputBufferTooShort"
    /\ got.event_type = "Received"
    /\ Len(got.body) = 2
    /\ Tracked(mgr, got.source, got.destination.port)
    /\ ConnectionOf(mgr, got.source, got.destination.port).buffer.used = 1
    /\ ConnectionOf(mgr, got.source, got.destination.port).buffer.start = 1

\* C24, in each state: recv on a connection copies the oldest min(used,
\* out.len()) bytes of its buffer and returns their number; afterwards
\* recv_buffer_available_bytes is less by that number and the next packet
\* sent on the connection, the RST of this recv if it ends the connection,
\* carries a fwd_cnt greater by that number; the bytes in the buffer are
\* those that follow the first fwd_cnt bytes of the stream.
C24_State ==
    \A peer \in Peers, p \in Ports, n \in 0 .. MgrCapacity + 1 :
        Tracked(mgr, peer, p) =>
            LET c == ConnectionOf(mgr, peer, p)
                r == vsock_recv(mgr, peer, p, n)
                count == Min(c.buffer.used, n)
            IN  /\ r.ret = "Ok"
                /\ Len(r.val) = count
                /\ r.val = SubSeq(Content(c.buffer), 1, count)
                /\ Content(c.buffer) = [k \in 1 .. c.buffer.used |-> c.info.fwd_cnt + k]
                /\ recv_buffer_available_bytes(mgr, peer, p).val = c.buffer.used
                /\ IF Tracked(r.m, peer, p)
                   THEN /\ recv_buffer_available_bytes(r.m, peer, p).val
                               = c.buffer.used - count
                        /\ r.m.sent = <<>>
                        /\ vsock_update_credit(r.m, peer, p).m.sent[1].fwd_cnt
                               = c.info.fwd_cnt + count
                        /\ vsock_update_credit(mgr, peer, p).m.sent[1].fwd_cnt
                               = c.info.fwd_cnt
                   ELSE /\ SentFor(r.m, "Rst", peer, p)
                        /\ r.m.sent[1].fwd_cnt = c.info.fwd_cnt + count

\* C24, in each step: the fwd_cnt of a connection is 0 when the connection
\* enters the list and grows only in a recv on it, by the number of bytes
\* the recv returns.
C24_Step ==
    \A peer \in Peers, p \in Ports :
        Tracked(mgr', peer, p) =>
            LET d == ConnectionOf(mgr', peer, p)
                returned == IF last'.op = "recv" /\ last'.val = p /\ got'.peer = peer
                            THEN Len(got'.out) ELSE 0
            IN  IF Tracked(mgr, peer, p)
                THEN d.info.fwd_cnt = ConnectionOf(mgr, peer, p).info.fwd_cnt + returned
                ELSE d.info.fwd_cnt = 0

C26_Connect ==
    \A destination \in Peers, src_port \in Ports, transmitted \in BOOLEAN :
        LET r == vsock_connect(mgr, destination, src_port, transmitted)
        IN  /\ r.ret = "ConnectionExists" <=> Tracked(mgr, destination, src_port)
            /\ r.m.listening_ports = mgr.listening_ports
            /\ IF r.ret = "Ok"
               THEN /\ transmitted
                    /\ SentFor(r.m, "Request", destination, src_port)
                    /\ r.m.sent[1].buf_alloc = mgr.per_connection_buffer_capacity
                    /\ r.m.sent[1].fwd_cnt = 0
                    /\ Len(r.m.connections) = Len(mgr.connections) + 1
                    /\ SubSeq(r.m.connections, 1, Len(mgr.connections)) = mgr.connections
                    /\ LET c == r.m.connections[Len(r.m.connections)]
                       IN  /\ c.info.dst = destination
                           /\ c.info.src_port = src_port
                           /\ c.info.buf_alloc = mgr.per_connection_buffer_capacity
                           /\ c.buffer.used = 0
                           /\ Len(c.buffer.buffer) = mgr.per_connection_buffer_capacity
                           /\ ~c.peer_requested_shutdown
               ELSE /\ r.m.sent = <<>>
                    /\ r.m.connections = mgr.connections
                    /\ r.ret # "ConnectionExists" => ~transmitted

\* A connect has just failed in the lower layer, with one connection in
\* the list and none for the port asked.
C26_Witness ==
    /\ last.op = "connect"
    /\ last.ret = "Err"
    /\ mgr.sent = <<>>
    /\ Len(mgr.connections) = 1
    /\ \A peer \in Peers : ~Tracked(mgr, peer, last.val)

\* The addresses a caller may name: the peer, and strangers that share its
\* cid or its port.
Addresses == Peers \cup {VsockAddr(3, 1234), VsockAddr(2, 1235)}
\* What each of the six operations that look a connection up returns for
\* (peer, src_port).
Lookups(m, peer, src_port) ==
    <<vsock_send(m, peer, src_port, <<1>>),
      vsock_recv(m, peer, src_port, 1),
      recv_buffer_available_bytes(m, peer, src_port),
      vsock_update_credit(m, peer, src_port),
      vsock_shutdown(m, peer, src_port),
      vsock_force_close(m, peer, src_port)>>

\* C27: send, recv, recv_buffer_available_bytes, update_credit, shutdown
\* and force_close return NotConnected when no connection in the list has
\* the peer and port they are given, and then transmit nothing and leave
\* the list, every buffer in it and the listening ports as they were.
C27_NotConnected ==
    \A peer \in Addresses, src_port \in Ports \cup {3} :
        (\A i \in 1 .. Len(mgr.connections) :
             ~(/\ mgr.connections[i].info.dst = peer
               /\ mgr.connections[i].info.src_port = src_port)) =>
            \A k \in 1 .. 6 :
                LET r == Lookups(mgr, peer, src_port)[k]
                IN  /\ r.ret = "NotConnected"
                    /\ r.m.sent = <<>>
                    /\ r.m.connections = mgr.connections
                    /\ r.m.listening_ports = mgr.listening_ports
                    /\ r.m.heard = mgr.heard

\* A lookup has just failed for a port without a connection while the
\* other port has one that holds bytes.
C27_Witness ==
    /\ last.op \in {"send", "recv", "update_credit", "shutdown", "force_close"}
    /\ last.ret = "NotConnected"
    /\ Len(mgr.connections) = 1
    /\ mgr.connections[1].buffer.used = 2
    /\ mgr.connections[1].info.src_port # last.val
    /\ mgr.listening_ports # <<>>

AnyCidEvents ==
    Events \cup {[event EXCEPT !.destination.cid = LocalCid + 1] : event \in Events}

\* C34: an event that is for no connection in the list (none has its peer
\* and port, or it is addressed to another cid) and that is not a
\* connection request addressed to our cid is dropped: poll returns None,
\* the list and every buffer in it are as before, and nothing is
\* transmitted.
C34_Dropped ==
    mgr # None =>
        \A event \in AnyCidEvents :
            (/\ \/ event.destination.cid # LocalCid
                \/ \A i \in 1 .. Len(mgr.connections) :
                       ~(/\ mgr.connections[i].info.dst = event.source
                         /\ mgr.connections[i].info.src_port = event.destination.port)
             /\ ~(/\ event.event_type = "ConnectionRequest"
                  /\ event.destination.cid = LocalCid)) =>
                LET r == vsock_poll(mgr, event)
                IN  /\ r.ret = "None"
                    /\ r.m.sent = <<>>
                    /\ r.m.connections = mgr.connections
                    /\ r.m.listening_ports = mgr.listening_ports

\* A poll has just dropped a connection request addressed to another cid,
\* for a port that is listened on and for which a connection with that
\* peer is in the list.
C34_Witness ==
    /\ mgr # None
    /\ last.op = "poll"
    /\ last.ret = "None"
    /\ got.event_type = "ConnectionRequest"
    /\ got.destination.cid # LocalCid
    /\ got.destination.port \in Range(mgr.listening_ports)
    /\ get_connection(mgr.connections, got.source, got.destination.port) # 0
    /\ Len(mgr.connections) = last.val
    /\ mgr.sent = <<>>

\* C37: in every reachable state of the manager no two connections in the
\* list have the same peer and local port, so that get_connection and
\* get_connection_for_event find at most one connection.
C37_Unique ==
    mgr # None =>
        /\ \A i, j \in 1 .. Len(mgr.connections) :
               (/\ mgr.connections[i].info.dst = mgr.connections[j].info.dst
                /\ mgr.connections[i].info.src_port = mgr.connections[j].info.src_port)
                   => i = j
        /\ \A event \in AnyCidEvents :
               Cardinality({i \in 1 .. Len(mgr.connections) :
                   matches_connection(event, mgr.connections[i].info, LocalCid)}) <= 1

\* A connect has just been refused for a connection that is in the list,
\* next to another one, after a request was accepted.
C37_Witness ==
    /\ mgr # None
    /\ last.op = "connect"
    /\ last.ret = "ConnectionExists"
    /\ Len(mgr.connections) = 2
    /\ \E i \in 1 .. 2 : mgr.connections[i].info.peer_buf_alloc = 50

\* ------------------------------------------------- shadow and live table
\* C36: between the driver's operations, with a device that leaves the
\* descriptor table alone, every live descriptor equals its shadow in addr,
\* len, flags and next: after new, after every add and after every pop_used,
\* with and without indirect descriptors; a popped descriptor has addr 0 and
\* len 0 in the live table.
C36_ShadowIsLive ==
    /\ \A i \in Slots : shm.desc[i] = vq.desc_shadow[i]
    /\ \A i \in Slots \ InFlightDescs : shm.desc[i].addr = 0 /\ shm.desc[i].len = 0

\* ------------------------------------------------ add, notify, wait, pop
\* adds per behaviour of the driver that calls add_notify_wait_pop
MaxWaitAdds == 2
\* adds per behaviour of the driver that goes round the available ring
MaxFlightAdds == 5
\* The chains it adds: one descriptor, and three (one indirect descriptor on
\* a queue with indirect descriptors).
WaitShapes == {ShapeOne, ShapeThree}

\* What add_notify_wait_pop has done when it starts to wait: the result of
\* add and whether it rang the transport's doorbell.
Notified(r, notify) ==
    [ret |-> r.ret, val |-> r.val, vq |-> r.vq, hal |-> r.hal,
     stores |-> r.stores, notify |-> notify]

\* add_notify_wait_pop that asks should_notify before it adds.
add_notify_wait_pop_asking_first(q, m, l, inputs, outputs) ==
    LET r == add(q, l, inputs, outputs)
    IN  Notified(r, r.ret = "Ok" /\ should_notify(q, m))

\* VirtQueue::add_notify_wait_pop, up to the loop that waits for can_pop: an
\* error of add is returned at once, otherwise the transport is notified
\* if should_notify says so after the add.
add_notify_wait_pop(q, m, l, inputs, outputs) ==
    LET r == add(q, l, inputs, outputs)
    IN  Notified(r, r.ret = "Ok" /\ should_notify(r.vq, ApplyStores(m, r.stores)))

\* A chain in flight together with the value of avail_idx it was added at.
Published(c, at) == c @@ [at |-> at]

\* Whether the device has read the entry of the available ring that was
\* written at index `at`.
Taken(at) == (dq.avail_idx - at - 1) % U16 < U16 \div 2

\* The queue after new, or aged; the device has asked for notifications
\* (s = 0: used.flags clear, avail_event at the driver's avail_idx) or has
\* put them off (s = 1: bit 0 of used.flags set, avail_event one further).
WaitQueue(c, s) ==
    /\ vq = Aged(new(c.indirect, c.event_idx), c.start)
    /\ shm = [AgedShm(ShmInit, c.start, c.event_idx) EXCEPT
                 !.used.flags = s,
                 !.used.avail_event = wrapping_add(c.start, s)]
    /\ hal = HalInit
    /\ chains = [h \in Slots |-> None]
    /\ last = Last("new", "Ok", 0)
    /\ adds = 0
    /\ pend = <<>>
    /\ dq = Aged(dev_new, c.start)
    /\ got = None
    /\ twin = None
    /\ mgr = None

WaitInit == \E c \in Configs : \E s \in {0, 1} : WaitQueue(c, s)

\* Going round the ring: a queue without indirect descriptors two adds
\* before the indices wrap, which takes chains of one and of two
\* descriptors, and a fresh one with indirect descriptors, which takes
\* chains with an indirect list.
FlightConfigs ==
    {[indirect |-> FALSE, event_idx |-> FALSE, start |-> U16 - 2],
     [indirect |-> TRUE, event_idx |-> TRUE, start |-> 0]}
FlightShapes == IF vq.indirect THEN {ShapeThree} ELSE {ShapeOne, ShapeSplit}

\* The queue after n adds of a chain of one descriptor that the device has
\* yet to read.
RECURSIVE Loaded(_, _)
Loaded(c, n) ==
    IF n = 0
    THEN [vq |-> Aged(new(c.indirect, c.event_idx), c.start),
          shm |-> AgedShm(ShmInit, c.start, c.event_idx),
          hal |-> HalInit,
          chains |-> [h \in Slots |-> None]]
    ELSE LET p == Loaded(c, n - 1)
             inputs == Inputs(ShapeOne[1], p.vq.free_head)
             r == add(p.vq, p.hal, inputs, <<>>)
         IN  [vq |-> r.vq,
              shm |-> ApplyStores(p.shm, r.stores),
              hal |-> r.hal,
              chains |-> [p.chains EXCEPT ![r.val] =
                             Published(Chain(inputs, <<>>, DescsOf(r.stores, <<>>),
                                             FALSE),
                                       p.vq.avail_idx)]]

\* The driver has filled all but one slot of the ring.
FlightInit ==
    \E c \in FlightConfigs :
        LET p == Loaded(c, SIZE - 1)
        IN  /\ vq = p.vq
            /\ shm = p.shm
            /\ hal = p.hal
            /\ chains = p.chains
            /\ last = Last("add", "Ok", SIZE - 2)
            /\ adds = SIZE - 1
            /\ pend = <<>>
            /\ dq = Aged(dev_new, c.start)
            /\ got = None
            /\ twin = None
            /\ mgr = None

\* `got` holds the last call of add_notify_wait_pop: its token, whether it
\* notified the device and whether it is still in its loop.
Waiting == got # None /\ got.waiting

\* The driver calls add; no call of add_notify_wait_pop is in progress.
WaitAdd(max, shapes) ==
    /\ ~Waiting
    /\ \E shape \in shapes :
        LET slot == vq.free_head
            inputs == Inputs(shape[1], slot)
            outputs == Outputs(shape[2], slot)
            r == add(vq, hal, inputs, outputs)
        IN  /\ r.ret = "Ok" => adds < max
            /\ vq' = r.vq
            /\ hal' = r.hal
            /\ shm' = ApplyStores(shm, r.stores)
            /\ chains' = IF r.ret = "Ok"
                         THEN [chains EXCEPT ![r.val] =
                                  Published(Chain(inputs, outputs,
                                                  DescsOf(r.stores, <<>>), FALSE),
                                            vq.avail_idx)]
                         ELSE chains
            /\ adds' = IF r.ret = "Ok" THEN adds + 1 ELSE adds
            /\ last' = Last("add", r.ret, r.val)
            /\ UNCHANGED <<pend, dq, got, twin, mgr>>

\* The driver calls add_notify_wait_pop: it adds the chain and notifies the
\* device, and then waits unless add failed.
WaitCall ==
    /\ ~Waiting
    /\ \E shape \in WaitShapes :
        LET slot == vq.free_head
            inputs == Inputs(shape[1], slot)
            outputs == Outputs(shape[2], slot)
            r == add_notify_wait_pop(vq, shm, hal, inputs, outputs)
        IN  /\ r.ret = "Ok" => adds < MaxWaitAdds
            /\ vq' = r.vq
            /\ hal' = r.hal
            /\ shm' = ApplyStores(shm, r.stores)
            /\ chains' = IF r.ret = "Ok"
                         THEN [chains EXCEPT ![r.val] =
                                  Published(Chain(inputs, outputs,
                                                  DescsOf(r.stores, <<>>), FALSE),
                                            vq.avail_idx)]
                         ELSE chains
            /\ adds' = IF r.ret = "Ok" THEN adds + 1 ELSE adds
            /\ got' = IF r.ret = "Ok"
                      THEN [token |-> r.val, notify |-> r.notify, waiting |-> TRUE]
                      ELSE None
            /\ last' = IF r.ret = "Ok" THEN Last("notify", "Ok", Bit(r.notify))
                       ELSE Last("add_notify_wait_pop", r.ret, 0)
            /\ UNCHANGED <<pend, dq, twin, mgr>>

\* add_notify_wait_pop leaves its loop once can_pop holds, and returns what
\* pop_used returns for its token.
WaitReturn ==
    /\ Waiting
    /\ can_pop(vq, shm)
    /\ LET c == chains[got.token]
           r == pop_used(vq, shm, hal, got.token, c.inputs, c.outputs)
       IN  /\ vq' = r.vq
           /\ hal' = r.hal
           /\ shm' = ApplyStores(shm, r.stores)
           /\ chains' = IF r.ret = "Ok" THEN [chains EXCEPT ![got.token] = None]
                        ELSE chains
           /\ last' = Last("add_notify_wait_pop", r.ret, r.val)
           /\ got' = [got EXCEPT !.waiting = FALSE]
           /\ UNCHANGED <<adds, pend, dq, twin, mgr>>

\* The driver pops the chain that peek_used names; no call of
\* add_notify_wait_pop is in progress.
FlightPop ==
    /\ ~Waiting
    /\ can_pop(vq, shm)
    /\ LET token == peek_used(vq, shm)
           c == chains[token]
           r == pop_used(vq, shm, hal, token, c.inputs, c.outputs)
       IN  /\ vq' = r.vq
           /\ hal' = r.hal
           /\ shm' = ApplyStores(shm, r.stores)
           /\ chains' = IF r.ret = "Ok" THEN [chains EXCEPT ![token] = None]
                        ELSE chains
           /\ last' = Last("pop_used", r.ret, r.val)
           /\ UNCHANGED <<adds, pend, dq, got, twin, mgr>>


\* The device completes one of the chains in flight, in any order, after
\* reading the available ring as far as that chain's entry.
WaitDevUse ==
    \E h \in Slots :
        /\ chains[h] # None
        /\ ~chains[h].used
        /\ shm' = [shm EXCEPT
                      !.used.ring[Mask(shm.used.idx)] =
                          [id |-> h, len |-> UsedLen(chains[h])],
                      !.used.idx = wrapping_add(@, 1)]
        /\ chains' = [chains EXCEPT ![h].used = TRUE]
        /\ dq' = [dq EXCEPT
                     !.avail_idx = IF Taken(chains[h].at) THEN @
                                   ELSE wrapping_add(chains[h].at, 1),
                     !.last_used_idx = wrapping_add(@, 1)]
        /\ last' = Last("device", "Ok", h)
        /\ UNCHANGED <<vq, hal, adds, pend, got, twin, mgr>>

WaitNext ==
    \/ WaitAdd(MaxWaitAdds, WaitShapes)
    \/ WaitCall
    \/ WaitReturn
    \/ FlightPop
    \/ WaitDevUse

SpecWait == WaitInit /\ [][WaitNext]_vars

\* The driver adds and pops without waiting, often enough to go round the
\* available ring.
FlightNext ==
    \/ WaitAdd(MaxFlightAdds, FlightShapes)
    \/ FlightPop
    \/ WaitDevUse

SpecFlight == FlightInit /\ [][FlightNext]_vars

\* The step of WaitReturn as far as `got` shows it: the loop is left.
WaitOver ==
    /\ Waiting
    /\ can_pop(vq, shm)
    /\ got' = [got EXCEPT !.waiting = FALSE]

\* The device goes on completing what it was given, and the loop of
\* add_notify_wait_pop goes on testing can_pop: once can_pop holds, which
\* only this call can undo, the loop is left.
SpecWaitFair ==
    /\ SpecWait
    /\ WF_vars(WaitDevUse)
    /\ WF_got(WaitOver)

\* ------------------------------------------------ chains in flight (C40)
\* The chains in flight as the driver counts them.
InFlight(q) == (q.avail_idx - q.last_used_idx) % U16

\* An add has returned Ok in this step.
Added == vq'.avail_idx # vq.avail_idx

C40_State ==
    /\ InFlight(vq) = Cardinality(Heads)
    /\ InFlight(vq) <= vq.num_used
    /\ vq.num_used <= SIZE

C40_Step ==
    Added =>
        /\ last'.op = "add" /\ last'.ret = "Ok"
        /\ chains[last'.val] = None
        /\ shm'.avail.ring[Mask(vq.avail_idx)] = last'.val
        /\ \A h \in Heads :
              Mask(chains[h].at) = Mask(vq.avail_idx) => Taken(chains[h].at)

C31_Called ==
    (~Waiting /\ Waiting') =>
        /\ vq'.avail_idx = wrapping_add(vq.avail_idx, 1)
        /\ shm'.avail.idx = vq'.avail_idx
        /\ chains[got'.token] = None /\ chains'[got'.token] # None
        /\ got'.notify <=> should_notify(vq', shm')

\* The call returns.
C31_Returned ==
    (Waiting /\ ~Waiting') =>
        LET token == got.token
            c == chains[token]
        IN  /\ can_pop(vq, shm)
            /\ last'.op = "add_notify_wait_pop"
            /\ (c.used /\ UsedId(vq, shm) = token) => last'.ret = "Ok"
            /\ last'.ret = "Ok" =>
                  /\ c.used
                  /\ last'.val = UsedLen(c)
                  /\ chains'[token] = None
                  /\ Range(c.descs) \subseteq Range(FreeList(vq'))
                  /\ vq'.num_used = vq.num_used - Len(c.descs)

\* The call waits: the driver does nothing until can_pop holds.
C31_Waits == (Waiting /\ Waiting') => (vq' = vq /\ hal' = hal)

\* C31: add_notify_wait_pop adds the chain and notifies the transport
\* exactly when should_notify holds after the add; when the device then
\* completes that chain before any other, the call returns the len the
\* device wrote, with the chain's descriptors back on the free list; it
\* never returns Ok before the device has published the completion; and
\* with a device that goes on completing what it was given, the call
\* returns.
C31_AddNotifyWaitPop ==
    /\ [][C31_Called /\ C31_Returned /\ C31_Waits]_vars
    /\ (Waiting ~> ~Waiting)

\* A call has returned Ok for an indirect chain without having notified
\* the device, while an older chain is still in flight.
C31_Witness ==
    /\ last.op = "add_notify_wait_pop" /\ last.ret = "Ok" /\ last.val > 0
    /\ got # None /\ ~got.waiting /\ ~got.notify
    /\ vq.indirect
    /\ Heads # {}

\* ------------------------------------------------- indirect lists (C32)
\* The chain was added as an indirect chain: the queue has indirect
\* descriptors and the chain more than one buffer.
AddedIndirect(c) == vq.indirect /\ Len(BuffersOf(c)) > 1

\* A pop_used has returned Ok in this step, for the chain with head h.
PoppedHead(h) ==
    /\ vq'.last_used_idx # vq.last_used_idx
    /\ UsedId(vq, shm) = h
    /\ chains[h] # None /\ chains'[h] = None

C32_State ==
    /\ \A h \in Slots :
          vq.indirect_lists[h] # None <=>
              (chains[h] # None /\ AddedIndirect(chains[h]))
    /\ last.ret # "panic"

C32_Step ==
    \A h \in Slots :
        LET before == vq.indirect_lists[h]
            after == vq'.indirect_lists[h]
        IN  /\ (before = None /\ after # None) =>
                  (Added /\ chains[h] = None /\ chains'[h] # None)
            /\ before # None =>
                  IF after = None THEN PoppedHead(h) ELSE after = before
            /\ (before # None /\ PoppedHead(h)) => after = None

\* C32: between the driver's operations indirect_lists[h] holds a list
\* exactly when h is the head of a chain in flight that was added as an
\* indirect chain; the list is put there by the add that returns h, stays
\* the same while the chain is in flight, and is taken out by the pop_used
\* that pops h and by nothing else.
C32_IndirectLists == [] C32_State /\ [][C32_Step]_vars

\* On a queue with indirect descriptors a chain of one descriptor is in
\* flight next to slots that hold no list, after an indirect chain was
\* popped.
C32_Witness ==
    /\ vq.indirect
    /\ last.ret = "Ok" /\ last.op \in {"pop_used", "add_notify_wait_pop"}
    /\ \E h \in Heads : ~AddedIndirect(chains[h])
    /\ \A h \in Slots : vq.indirect_lists[h] = None
    /\ \E i \in Slots : Contains(vq.desc_shadow[i].flags, INDIRECT)

\* --------------------------------------- popped chains are used (C38)
\* The device's helpers.
Helpers == {"poll", "wait_pop_add_notify"}

\* C38: every chain that poll or wait_pop_add_notify pops from the
\* available ring is written to the used ring before the helper returns,
\* whatever its result, so that after each call of a helper the device's
\* used.idx equals its avail_idx.
C38_PoppedIsUsed ==
    last.op \in Helpers =>
        /\ shm.used.idx = dq.avail_idx
        /\ dq.last_used_idx = dq.avail_idx

\* --------------------------------------------- pop_avail returns (C39)
\* The descriptors a call of pop_avail reads before it returns.
RECURSIVE Reads(_, _, _)
Reads(m, pp, turns) ==
    IF pp.err # "" \/ pp.next_token = -1 \/ turns > 2 * SIZE THEN 0
    ELSE (IF pp.next_token \in Slots THEN 1 ELSE 0)
         + Reads(m, pop_avail_step(m, pp), turns + 1)

\* C39: a call of pop_avail returns after reading at most SIZE descriptors,
\* whatever the driver left in the descriptor table and the available
\* ring: a head or a next index that is no index of the table gives an
\* error, and a chain that leads back into itself is refused.
C39_Terminates ==
    LET head == peek_avail(dq, shm)
        r == pop_avail(dq, shm)
    IN  /\ r.ret # "hang"
        /\ Reads(shm, Popping(<<>>, <<>>, head, ""), 1) <= SIZE
        /\ (head # -1 /\ head \notin Slots) => r.ret = "WrongToken"
        /\ (head \in Slots /\ Len(Visit(shm, head, SIZE + 1)) > SIZE) =>
              r.ret \notin {"Ok", "hang"}

\* ------------------------------- the helpers against any driver (C35)
\* As SpecAvail, with the device calling poll and wait_pop_add_notify on
\* what the driver left in the descriptor table and the available ring: the
\* tables linked upwards whose last descriptor is device-readable and ends
\* the chain, so that every chain has an end.
WedgeTables == {t \in AnyTables : t[0].next = 1 /\ t[SIZE - 1].flags = 0}

WedgeInit ==
    \E table \in WedgeTables :
        /\ vq = new(FALSE, FALSE)
        /\ shm = [AgedShm(ShmInit, U16 - 1, FALSE) EXCEPT !.desc = table]
        /\ hal = HalInit
        /\ chains = [h \in Slots |-> None]
        /\ last = Last("new", "Ok", 0)
        /\ adds = 0
        /\ pend = <<>>
        /\ dq = Aged(dev_new, U16 - 1)
        /\ got = None
        /\ twin = None
        /\ mgr = None

\* A call that never returns leaves no state behind it.
WedgePoll ==
    /\ \A result \in HandlerResults : poll(dq, shm, hal, result).ret # "hang"
    /\ DevPoll

WedgeSend ==
    /\ \A in_bufs \in SendData :
          wait_pop_add_notify(dq, shm, hal, in_bufs).ret \notin {"hang", "panic"}
    /\ DevSend

WedgeNext == DrvPublish \/ WedgePoll \/ WedgeSend

SpecWedge == WedgeInit /\ [][WedgeNext]_vars

\* A helper has returned InvalidDescriptor in this step.
Refused ==
    /\ last'.op \in Helpers
    /\ last'.ret = "InvalidDescriptor"
    /\ last' # last

\* C35: when poll or wait_pop_add_notify fails with InvalidDescriptor, the
\* queue is not wedged: the device has gone past the offending entry of the
\* available ring, so that it does not come upon that chain again and the
\* next call takes the chain the driver publishes after it.
C35_NotWedged ==
    [][Refused => dq'.avail_idx = wrapping_add(dq.avail_idx, 1)]_vars

\* ------------------------------------------------ DMA regions and the HAL
\* What the HAL was asked for, counted per region: a region is a physical
\* address, the virtual address the HAL gave for it and a number of pages.
MaxDmaPublish == 2
MaxDmaPops == 3
Region(paddr, vaddr, pgs) == [paddr |-> paddr, vaddr |-> vaddr, pages |-> pgs]
Count(b, r) == IF r \in DOMAIN b THEN b[r] ELSE 0
Once(b, r) ==
    [x \in DOMAIN b \cup {r} |-> Count(b, x) + IF x = r THEN 1 ELSE 0]
Ledger ==
    [alloc |-> [x \in {} |-> 0], dealloc |-> [x \in {} |-> 0],
     map |-> [x \in {} |-> 0], unmap |-> [x \in {} |-> 0]]

\* Hal::dma_alloc, Hal::dma_dealloc, DeviceHal::dma_map and
\* DeviceHal::dma_unmap, each time they succeed.
dma_alloc(l, region) == [l EXCEPT !.alloc = Once(@, region)]
dma_dealloc(l, region) == [l EXCEPT !.dealloc = Once(@, region)]
dma_map(l, region) == [l EXCEPT !.map = Once(@, region)]
dma_unmap(l, region) == [l EXCEPT !.unmap = Once(@, region)]

\* The pages that hold `size` bytes, of 4096 bytes each.
pages(size) == (size + 4095) \div 4096

\* What the HAL answers when asked to map or to allocate: -1 for a failure,
\* 0 for the virtual address equal to the physical one, 1 for another one.
HalAnswers == {-1, 0, 1}
Answered(paddr, answer) == paddr + answer * DmaOffset

\* Dma::new: the HAL allocates, and a physical address of 0 is a failure.
Dma_new(l, paddr, pgs) ==
    IF paddr = 0 THEN [ret |-> "DmaError", dma |-> None, l |-> l]
    ELSE [ret |-> "Ok", dma |-> Region(paddr, paddr, pgs),
          l |-> dma_alloc(l, Region(paddr, paddr, pgs))]

\* Drop for Dma
Dma_drop(l, dma) == dma_dealloc(l, dma)

\* DeviceDma::new
DeviceDma_new(l, paddr, pgs, answer) ==
    IF answer = -1 THEN [ret |-> "DmaError", dma |-> None, l |-> l]
    ELSE [ret |-> "Ok", dma |-> Region(paddr, Answered(paddr, answer), pgs),
          l |-> dma_map(l, Region(paddr, Answered(paddr, answer), pgs))]

\* Drop for DeviceDma
DeviceDma_drop(l, dma) == dma_unmap(l, dma)

\* Dropping the regions an object owns, one after the other.
RECURSIVE DropEach(_, _, _)
DropEach(l, dmas, device) ==
    IF dmas = <<>> THEN l
    ELSE DropEach(IF device THEN DeviceDma_drop(l, Head(dmas))
                  ELSE Dma_drop(l, Head(dmas)),
                  Tail(dmas), device)

\* VirtQueueLayout::allocate_legacy and allocate_flexible: the regions of
\* the layout, or none when an allocation fails; the first region of a
\* flexible layout is dropped when the second cannot be had. A queue of
\* SIZE entries takes two pages in the legacy layout and one page for each
\* of the two regions otherwise.
allocate_legacy(l, paddr) ==
    LET r == Dma_new(l, paddr, 2)
    IN  IF r.ret # "Ok" THEN [ret |-> r.ret, layout |-> <<>>, l |-> r.l]
        ELSE [ret |-> "Ok", layout |-> <<r.dma>>, l |-> r.l]
allocate_flexible(l, paddr, used_paddr) ==
    LET r1 == Dma_new(l, paddr, pages(16 * SIZE + 6 + 2 * SIZE))
        r2 == Dma_new(r1.l, used_paddr, pages(6 + 8 * SIZE))
    IN  IF r1.ret # "Ok" THEN [ret |-> r1.ret, layout |-> <<>>, l |-> r1.l]
        ELSE IF r2.ret # "Ok"
        THEN [ret |-> r2.ret, layout |-> <<>>, l |-> Dma_drop(r2.l, r1.dma)]
        ELSE [ret |-> "Ok", layout |-> <<r1.dma, r2.dma>>, l |-> r2.l]

\* VirtQueueLayout::map_legacy and map_flexible
map_legacy(l, paddr, answer) ==
    LET r == DeviceDma_new(l, paddr, 2, answer)
    IN  IF r.ret # "Ok" THEN [ret |-> r.ret, layout |-> <<>>, l |-> r.l]
        ELSE [ret |-> "Ok", layout |-> <<r.dma>>, l |-> r.l]
map_flexible(l, desc_avail_paddr, used_paddr, answer1, answer2) ==
    LET r1 == DeviceDma_new(l, desc_avail_paddr,
                            pages(16 * SIZE + 6 + 2 * SIZE), answer1)
        r2 == DeviceDma_new(r1.l, used_paddr, pages(6 + 8 * SIZE), answer2)
    IN  IF r1.ret # "Ok" THEN [ret |-> r1.ret, layout |-> <<>>, l |-> r1.l]
        ELSE IF r2.ret # "Ok"
        THEN [ret |-> r2.ret, layout |-> <<>>,
              l |-> DeviceDma_drop(r2.l, r1.dma)]
        ELSE [ret |-> "Ok", layout |-> <<r1.dma, r2.dma>>, l |-> r2.l]

\* MappedDescriptor::map_buf: a copy of the descriptor and the mapping of
\* its buffer.
map_buf(l, desc, answer) ==
    LET r == DeviceDma_new(l, desc.addr, pages(desc.len), answer)
    IN  IF r.ret # "Ok" THEN [ret |-> r.ret, mapped |-> None, l |-> r.l]
        ELSE [ret |-> "Ok",
              mapped |-> [desc_copy |-> desc, dma |-> r.dma], l |-> r.l]

\* The state of pop_avail's loop where the mappings are followed: the next
\* token, the queue's mappings per descriptor, the HAL's counts, whether a
\* device-writable descriptor was seen, and the error that ended it.
Mapping(next_token, desc_mapped, l, wrote, err) ==
    [next_token |-> next_token, desc_mapped |-> desc_mapped, l |-> l,
     wrote |-> wrote, err |-> err]

\* DeviceVirtQueue::pop_avail, one turn of the loop: the buffer of the
\* descriptor is mapped anew, and the new mapping takes the place of the
\* one the queue has for the descriptor, which is dropped, unless the two
\* are equal, when the new one is forgotten.
pop_avail_map(m, ps, answers) ==
    LET token == ps.next_token
    IN  IF token \notin Slots THEN [ps EXCEPT !.err = "WrongToken"]
        ELSE
        LET desc == m.desc[token]
            write == Contains(desc.flags, WRITE)
            next_token == IF Contains(desc.flags, NEXT) THEN desc.next ELSE -1
            prev == ps.desc_mapped[token]
            new_desc == map_buf(ps.l, desc, answers[token])
            desc_buf_changed ==
                IF prev = None THEN TRUE ELSE prev # new_desc.mapped
            l1 == IF desc_buf_changed /\ prev # None
                  THEN DeviceDma_drop(new_desc.l, prev.dma)
                  ELSE new_desc.l
            ps1 == [ps EXCEPT !.desc_mapped[token] =
                                    IF desc_buf_changed THEN new_desc.mapped
                                    ELSE @,
                              !.l = l1]
        IN  IF Contains(desc.flags, INDIRECT) THEN [ps EXCEPT !.err = "panic"]
            ELSE IF new_desc.ret # "Ok" THEN [ps EXCEPT !.err = new_desc.ret]
            ELSE IF ~write /\ ps.wrote
            THEN [ps1 EXCEPT !.err = "InvalidDescriptor"]
            ELSE [ps1 EXCEPT !.next_token = next_token,
                             !.wrote = ps.wrote \/ write]

\* The loop over the chain, which a chain that leads back into itself keeps
\* turning ("hang").
RECURSIVE pop_avail_map_loop(_, _, _, _)
pop_avail_map_loop(m, ps, answers, turns) ==
    IF ps.err # "" \/ ps.next_token = -1 THEN ps
    ELSE IF turns > 2 * SIZE THEN [ps EXCEPT !.err = "hang"]
    ELSE pop_avail_map_loop(m, pop_avail_map(m, ps, answers), answers,
                            turns + 1)

\* DeviceVirtQueue::pop_avail with the mappings of the queue and the counts
\* of the HAL.
pop_avail_mapped(q, m, l, answers) ==
    LET head == peek_avail(q, m)
        ps == pop_avail_map_loop(m, Mapping(head, q.desc_mapped, l, FALSE, ""),
                                 answers, 1)
    IN  IF head = -1 THEN [ret |-> "None", dq |-> q, l |-> l]
        ELSE IF ps.err # ""
        THEN [ret |-> ps.err, dq |-> [q EXCEPT !.desc_mapped = ps.desc_mapped],
              l |-> ps.l]
        ELSE [ret |-> "Ok",
              dq |-> [q EXCEPT !.desc_mapped = ps.desc_mapped,
                               !.avail_idx = wrapping_add(@, 1)],
              l |-> ps.l]

\* The regions a device's queue owns: those of its layout and the mappings
\* it has per descriptor.
RECURSIVE MappedFrom(_, _)
MappedFrom(q, i) ==
    IF i = SIZE THEN <<>>
    ELSE (IF q.desc_mapped[i] = None THEN <<>> ELSE <<q.desc_mapped[i].dma>>)
         \o MappedFrom(q, i + 1)
Owned(q) == q.layout \o MappedFrom(q, 0)

\* ---- the queues made, used and dropped
\* The driver's table: a chain of two descriptors from 0, the second of
\* them device-writable or not, and two descriptors on their own.
DmaTables ==
    {t \in AnyTables :
        /\ t[0].flags = NEXT /\ t[0].next = 1
        /\ t[1].flags \in {0, WRITE}
        /\ t[2].flags = 0 /\ t[3].flags = WRITE}
\* A queue that was dropped, or that new did not make.
Gone == [gone |-> TRUE]

DmaInit ==
    \E table \in DmaTables :
        /\ vq = None
        /\ shm = [AgedShm(ShmInit, U16 - 1, FALSE) EXCEPT !.desc = table]
        /\ hal = Ledger
        /\ chains = [h \in Slots |-> None]
        /\ last = Last("none", "Ok", 0)
        /\ adds = 0
        /\ pend = <<>>
        /\ dq = None
        /\ got = 0
        /\ twin = None
        /\ mgr = None

\* VirtQueue::new as far as the layout goes: the HAL gives the physical
\* addresses, of which 0 is its failure.
DmaDrvNew ==
    \E legacy \in BOOLEAN, paddr \in {0, 10 * DmaOffset},
       used_paddr \in {0, 20 * DmaOffset} :
        LET r == IF legacy THEN allocate_legacy(hal, paddr)
                 ELSE allocate_flexible(hal, paddr, used_paddr)
        IN  /\ vq = None
            /\ legacy => used_paddr = 0
            /\ vq' = IF r.ret = "Ok" THEN [layout |-> r.layout] ELSE Gone
            /\ hal' = r.l
            /\ last' = Last("new", r.ret, Len(r.layout))
            /\ UNCHANGED <<shm, chains, adds, pend, dq, got, twin, mgr>>

\* The driver's queue is dropped, and its layout with it, when no device
\* has it mapped.
DmaDrvDrop ==
    /\ vq \notin {None, Gone}
    /\ dq \in {None, Gone}
    /\ vq' = Gone
    /\ hal' = DropEach(hal, vq.layout, FALSE)
    /\ last' = Last("drop", "Ok", Len(vq.layout))
    /\ UNCHANGED <<shm, chains, adds, pend, dq, got, twin, mgr>>

\* DeviceVirtQueue::new, on the addresses of the driver's layout, which the
\* transport hands over.
DmaDevNew ==
    \E answer1 \in {-1, 0}, answer2 \in {-1, 0} :
        LET legacy == Len(vq.layout) = 1
            r == IF legacy THEN map_legacy(hal, vq.layout[1].paddr, answer1)
                 ELSE map_flexible(hal, vq.layout[1].paddr,
                                   vq.layout[2].paddr, answer1, answer2)
        IN  /\ vq \notin {None, Gone}
            /\ dq = None
            /\ legacy => answer2 = 0
            /\ dq' = IF r.ret = "Ok"
                     THEN Aged(dev_new, U16 - 1)
                          @@ [layout |-> r.layout,
                              desc_mapped |-> [i \in Slots |-> None]]
                     ELSE Gone
            /\ hal' = r.l
            /\ last' = Last("dev_new", r.ret, Len(r.layout))
            /\ UNCHANGED <<vq, shm, chains, adds, pend, got, twin, mgr>>

\* The driver makes a chain available again, after it has or has not
\* given the descriptor at its head another buffer.
DmaPublish ==
    \E head \in Slots, moved \in BOOLEAN :
        /\ dq \notin {None, Gone}
        /\ adds < MaxDmaPublish
        /\ shm' = [shm EXCEPT !.avail.ring[Mask(shm.avail.idx)] = head,
                              !.avail.idx = wrapping_add(@, 1),
                              !.desc[head].addr =
                                    IF moved THEN 300 + head - @ ELSE @]
        /\ adds' = adds + 1
        /\ last' = Last("publish", "Ok", head)
        /\ UNCHANGED <<vq, hal, chains, pend, dq, got, twin, mgr>>

\* The device calls pop_avail, and the HAL answers the mapping of each
\* descriptor of the chain. `got` counts the calls.
DmaPop ==
    \E answers \in [Slots -> HalAnswers] :
        LET r == pop_avail_mapped(dq, shm, hal, answers)
            asked == Visit(shm, peek_avail(dq, shm), SIZE)
        IN  /\ dq \notin {None, Gone}
            /\ \A i \in Slots :
                    (\A k \in 1 .. Len(asked) : asked[k] # i) => answers[i] = 0
            /\ got < MaxDmaPops
            /\ r.ret \notin {"hang", "None"}
            /\ dq' = r.dq
            /\ hal' = r.l
            /\ got' = got + 1
            /\ last' = Last("pop_avail", r.ret, peek_avail(dq, shm))
            /\ UNCHANGED <<vq, shm, chains, adds, pend, twin, mgr>>

\* The device's queue is dropped, and with it its layout and the mappings
\* it has per descriptor.
DmaDevDrop ==
    /\ dq \notin {None, Gone}
    /\ dq' = Gone
    /\ hal' = DropEach(hal, Owned(dq), TRUE)
    /\ last' = Last("dev_drop", "Ok", Len(Owned(dq)))
    /\ UNCHANGED <<vq, shm, chains, adds, pend, got, twin, mgr>>

DmaNext ==
    DmaDrvNew \/ DmaDrvDrop \/ DmaDevNew \/ DmaPublish \/ DmaPop \/ DmaDevDrop

SpecDma == DmaInit /\ [][DmaNext]_vars

\* ---- every region released exactly once
Regions ==
    DOMAIN hal.alloc \cup DOMAIN hal.dealloc
        \cup DOMAIN hal.map \cup DOMAIN hal.unmap

\* C33: every DMA region obtained through the HAL is released through the
\* HAL exactly once: no region is deallocated or unmapped more often than
\* it was allocated or mapped, and when the owning queue has been dropped
\* every dma_alloc of its layout has had its dma_dealloc and every dma_map,
\* of the layout and of the buffers of the chains popped, its dma_unmap.
C33_ReleasedOnce ==
    \A r \in Regions :
        /\ Count(hal.dealloc, r) <= Count(hal.alloc, r)
        /\ Count(hal.unmap, r) <= Count(hal.map, r)
        /\ vq = Gone => Count(hal.dealloc, r) = Count(hal.alloc, r)
        /\ dq = Gone => Count(hal.unmap, r) = Count(hal.map, r)
====
